---- MODULE Spec2Model ----
(***************************************************************************)
(* Model of the request admission layer of slack-mcp-server:               *)
(* pkg/server/middleware (SecurityMiddleware: per-client token buckets     *)
(* behind a reader/writer lock, CORS, security headers, preflight) and of  *)
(* the probe endpoints of pkg/server (HealthChecker).                      *)
(*                                                                         *)
(* Strings the code takes apart (X-Forwarded-For, RemoteAddr) are          *)
(* sequences of tokens: "," ":" " " "[" "]" are the separator characters   *)
(* and every other token stands for a run of ordinary characters.          *)
(* Strings the code only compares (Origin, header values) are TLA+         *)
(* strings.  Durations are in milliseconds (Go counts nanoseconds; the     *)
(* configured rates of the model all divide a minute exactly in both).     *)
(***************************************************************************)
EXTENDS Integers, Sequences, FiniteSets, TLC

VARIABLES
    env,           \* how the middleware was built: constructor, SLACK_MCP_RATE_LIMIT
    config,        \* sm.config
    rateLimiters,  \* sm.rateLimiters: client IP -> limiter (an index of limiters)
    limiters,      \* the rate.Limiter objects, in order of creation
    mu,            \* sm.mu
    now,           \* the clock
    ticks,         \* clock advances so far
    started,       \* requests that have arrived
    pc,            \* where each request's goroutine is
    req,           \* each request
    limiter,       \* getRateLimiter's local limiter
    exists,        \* getRateLimiter's local exists
    resp,          \* each request's response writer
    stages,        \* history: the stages of Handler each request went through
    created,       \* history: the key each limiter was created for
    allowLog,      \* history: the calls of limiter.Allow(), in order
    provider,      \* h.provider: nil, or what IsReady() and Slack() return
    getenv,        \* the SLACK_MCP_XOX?_TOKEN variables of the process
    startTime,     \* h.startTime
    probePc,       \* where each probe's goroutine is
    endpoint,      \* the handler each probe called
    deadline,      \* the deadline of each probe's ctx
    checks,        \* performHealthChecks' local checks
    details,       \* performHealthChecks' local details
    overallStatus, \* performHealthChecks' local overallStatus
    response,      \* the *HealthResponse handed to writeHealthResponse
    hw,            \* each probe's response writer
    callLog        \* history: the checks executed and the calls made upstream

\* The state of the HealthChecker and its probes
hvars == <<provider, getenv, startTime, probePc, endpoint, deadline, checks,
           details, overallStatus, response, hw, callLog>>

\* The state of the SecurityMiddleware and its requests, without the clock
svars == <<env, config, rateLimiters, limiters, mu, ticks,
           started, pc, req, limiter, exists, resp, stages, created, allowLog>>

vars == <<env, config, rateLimiters, limiters, mu, now, ticks,
          started, pc, req, limiter, exists, resp, stages, created, allowLog,
          hvars>>

----------------------------------------------------------------------------
(* Bounds *)

NumReq == 3
MaxTicks == 2
NumProbes == 2

Reqs == 1..NumReq
Probes == 1..NumProbes

----------------------------------------------------------------------------
(* Durations and configuration *)

Millisecond == 1
Second == 1000 * Millisecond
Minute == 60 * Second

None == 0

\* A value of SLACK_MCP_RATE_LIMIT: unset (""), or set to a text that
\* strconv.Atoi accepts (num) with value val, or rejects.
EnvUnset == [set |-> FALSE, num |-> FALSE, val |-> 0]
EnvText == [set |-> TRUE, num |-> FALSE, val |-> 0]
EnvNum(n) == [set |-> TRUE, num |-> TRUE, val |-> n]

parseRateLimit(value) ==
    IF ~value.set THEN Minute
    ELSE IF ~value.num \/ value.val <= 0 THEN Minute
    ELSE Minute \div value.val

\* loadServerConfig of cmd/slack-mcp-server: its reading of
\* SLACK_MCP_RATE_LIMIT, an error or the interval config.RateLimit it logs
\* as rate_limit_interval; 0 means no rate limiting.
loadServerConfig(value) ==
    IF ~value.set THEN [err |-> FALSE, RateLimit |-> Minute]
    ELSE IF ~value.num \/ value.val < 0 THEN [err |-> TRUE, RateLimit |-> 0]
    ELSE IF value.val = 0 THEN [err |-> FALSE, RateLimit |-> 0]
    ELSE [err |-> FALSE, RateLimit |-> Minute \div value.val]

SecurityConfig(cors, headers, rateLimit) ==
    [CORSOrigins |-> cors, EnableSecurityHeaders |-> headers, RateLimit |-> rateLimit]

NewSecurityMiddleware(value, cors, headers) ==
    SecurityConfig(cors, headers, parseRateLimit(value))

----------------------------------------------------------------------------
(* Strings as token sequences: strings.Split, strings.TrimSpace,           *)
(* strings.Contains and net.SplitHostPort as getClientIP uses them         *)

Contains(s, c) == \E i \in 1..Len(s) : s[i] = c

\* Index of the first c in s, or Len(s)+1.
RECURSIVE IndexOf(_, _, _)
IndexOf(s, c, i) ==
    IF i > Len(s) THEN i
    ELSE IF s[i] = c THEN i
    ELSE IndexOf(s, c, i + 1)

\* Index of the last c in s, or 0.
RECURSIVE LastIndexOf(_, _, _)
LastIndexOf(s, c, i) ==
    IF i = 0 THEN 0
    ELSE IF s[i] = c THEN i
    ELSE LastIndexOf(s, c, i - 1)

\* strings.Split(s, sep)[0]: the text before the first separator.
SplitFirst(s, sep) == SubSeq(s, 1, IndexOf(s, sep, 1) - 1)

RECURSIVE TrimLeft(_)
TrimLeft(s) ==
    IF s # <<>> /\ Head(s) = " " THEN TrimLeft(Tail(s)) ELSE s

RECURSIVE TrimRight(_)
TrimRight(s) ==
    IF s # <<>> /\ s[Len(s)] = " " THEN TrimRight(SubSeq(s, 1, Len(s) - 1)) ELSE s

TrimSpace(s) == TrimRight(TrimLeft(s))

\* net.SplitHostPort: the port follows the last colon; a host with colons
\* must be bracketed, brackets are removed; anything else is an error.
SplitHostPort(hostport) ==
    LET i == LastIndexOf(hostport, ":", Len(hostport))
        bracketed == hostport # <<>> /\ Head(hostport) = "["
        close == IndexOf(hostport, "]", 1)
        host == SubSeq(hostport, 1, i - 1)
    IN  IF i = 0 THEN [err |-> TRUE, host |-> <<>>]
        ELSE IF bracketed
             THEN IF close = i - 1
                  THEN [err |-> FALSE, host |-> SubSeq(hostport, 2, close - 1)]
                  ELSE [err |-> TRUE, host |-> <<>>]
        ELSE IF Contains(host, ":") \/ Contains(host, "[") \/ Contains(host, "]")
             THEN [err |-> TRUE, host |-> <<>>]
        ELSE [err |-> FALSE, host |-> host]

\* Faulty variant of getClientIP: the headers are not looked at.
getClientIPRemoteOnly(r) ==
    IF Contains(r.remoteAddr, ":") /\ ~SplitHostPort(r.remoteAddr).err
    THEN SplitHostPort(r.remoteAddr).host
    ELSE r.remoteAddr

\* Faulty variant of getClientIP: RemoteAddr is used as it is, port included.
getClientIPWithPort(r) ==
    IF r.xff # <<>> THEN TrimSpace(SplitFirst(r.xff, ","))
    ELSE IF r.xri # <<>> THEN r.xri
    ELSE r.remoteAddr

\* getClientIP: X-Forwarded-For first, then X-Real-IP, then RemoteAddr.
getClientIP(r) ==
    IF r.xff # <<>> THEN TrimSpace(SplitFirst(r.xff, ","))
    ELSE IF r.xri # <<>> THEN r.xri
    ELSE IF Contains(r.remoteAddr, ":") /\ ~SplitHostPort(r.remoteAddr).err
         THEN SplitHostPort(r.remoteAddr).host
         ELSE r.remoteAddr

----------------------------------------------------------------------------
(* The token bucket of golang.org/x/time/rate with burst 1, as             *)
(* getRateLimiter builds it.  One token is worth RateLimit milliseconds:   *)
(* tokens are counted in milliseconds of refill, so a bucket holds a       *)
(* whole token when tokens >= rateLimit.                                   *)

Burst == 1

Min(a, b) == IF a <= b THEN a ELSE b

\* Faulty variant of NewLimiter: a burst of two.
NewLimiterBurstTwo(rateLimit) ==
    [burst |-> 2, tokens |-> 2 * rateLimit, last |-> 0]

\* rate.NewLimiter(rate.Limit(1/RateLimit.Seconds()), 1): a full bucket,
\* last refilled at the zero time.
NewLimiter(rateLimit) ==
    [burst |-> Burst, tokens |-> Burst * rateLimit, last |-> 0]

\* Faulty variant of advance: the tokens accrued are not capped.
advanceUncapped(lim, rateLimit, t) == lim.tokens + (t - lim.last)

\* Limiter.advance: tokens accrued up to t, capped at the burst.
advance(lim, rateLimit, t) ==
    Min(lim.burst * rateLimit, lim.tokens + (t - lim.last))

\* Limiter.Allow at time t: whether a token is there.
AllowOk(lim, rateLimit, t) == advance(lim, rateLimit, t) >= rateLimit

\* Faulty variant of AllowNext: an admitted call leaves the token in the bucket.
AllowNextNoConsume(lim, rateLimit, t) ==
    [lim EXCEPT !.tokens = advance(lim, rateLimit, t), !.last = t]

\* Faulty variant of AllowNext: a refused call empties the bucket and starts
\* the refill anew.
AllowNextRefusalResets(lim, rateLimit, t) ==
    IF AllowOk(lim, rateLimit, t)
    THEN [lim EXCEPT !.tokens = advance(lim, rateLimit, t) - rateLimit, !.last = t]
    ELSE [lim EXCEPT !.tokens = 0, !.last = t]

\* Limiter.Allow at time t: the bucket afterwards; only an admitted call
\* changes it.
AllowNext(lim, rateLimit, t) ==
    IF AllowOk(lim, rateLimit, t)
    THEN [lim EXCEPT !.tokens = advance(lim, rateLimit, t) - rateLimit, !.last = t]
    ELSE lim

----------------------------------------------------------------------------
(* Responses *)

StatusOK == 200
StatusTooManyRequests == 429

NoHeaders == [h \in {} |-> ""]

Set(headers, name, value) == [h \in DOMAIN headers \cup {name} |->
                                 IF h = name THEN value ELSE headers[h]]

\* The body of a response is the sequence of the tokens written to it.
NoResponse == [status |-> 0, headers |-> NoHeaders, body |-> <<>>]

\* http.ResponseWriter.WriteHeader: the first status written stands.
WriteHeader(w, statusCode) ==
    [w EXCEPT !.status = IF w.status = 0 THEN statusCode ELSE w.status]

\* The double quote of a JSON text
Quote == "\""

\* A JSON string as fmt.Sprintf writes "%s" between two quotes: the text is
\* copied as it is.
Quoted(text) == <<Quote>> \o text \o <<Quote>>

\* time.Now().UTC().Format(time.RFC3339): the time to the second
FormatRFC3339(t) == <<ToString(t \div Second)>>

\* writeErrorResponse: the text fmt.Sprintf makes of the template, without
\* its white space
ErrorBody(path, errorCode, message, dtls, t) ==
    <<"{">> \o Quoted(<<"error">>) \o <<":", "{">>
        \o Quoted(<<"code">>) \o <<":">> \o Quoted(errorCode) \o <<",">>
        \o Quoted(<<"message">>) \o <<":">> \o Quoted(message) \o <<",">>
        \o Quoted(<<"details">>) \o <<":">> \o Quoted(dtls)
    \o <<"}", ",">>
    \o Quoted(<<"timestamp">>) \o <<":">> \o Quoted(FormatRFC3339(t)) \o <<",">>
    \o Quoted(<<"path">>) \o <<":">> \o Quoted(path)
    \o <<"}">>

\* Faulty variant of writeErrorResponse: WriteHeader is missing, so the body is sent
\* with the implicit 200.
writeErrorResponseNoStatus(w, r, statusCode, errorCode, message, dtls) ==
    [WriteHeader([w EXCEPT !.headers = Set(@, "Content-Type", "application/json")],
                 StatusOK)
       EXCEPT !.body = @ \o ErrorBody(r.path, errorCode, message, dtls, now)]

\* writeErrorResponse: Content-Type, the status line, the JSON body
writeErrorResponse(w, r, statusCode, errorCode, message, dtls) ==
    [WriteHeader([w EXCEPT !.headers = Set(@, "Content-Type", "application/json")],
                 statusCode)
       EXCEPT !.body = @ \o ErrorBody(r.path, errorCode, message, dtls, now)]

\* fmt.Sprintf("%.0f", a / b) for positive a and b: the quotient, rounded
Round(a, b) == (2 * a + b) \div (2 * b)

\* checkRateLimit: the details of the 429,
\* 60.0 / sm.config.RateLimit.Minutes() printed with %.0f
RateLimitDetails(cfg) ==
    <<"Rate limit of ", ToString(Round(60 * Minute, cfg.RateLimit)),
      " requests per minute exceeded">>

\* Faulty variant of applyCORSOrigin: with an empty allow-list the Origin is echoed.
applyCORSOriginEchoAll(headers, corsOrigins, origin) ==
    IF Len(corsOrigins) = 0 \/ \E i \in 1..Len(corsOrigins) :
                                  corsOrigins[i] = "*" \/ corsOrigins[i] = origin
    THEN Set(headers, "Access-Control-Allow-Origin", origin)
    ELSE headers

\* strings.ToLower on the origins of the model
ToLower(s) == IF s = "HTTPS://A.COM" THEN "https://a.com" ELSE s

\* Faulty variant of applyCORSOrigin: origins are compared with strings.EqualFold.
applyCORSOriginFold(headers, corsOrigins, origin) ==
    IF Len(corsOrigins) = 0
    THEN Set(headers, "Access-Control-Allow-Origin", "*")
    ELSE IF \E i \in 1..Len(corsOrigins) :
                corsOrigins[i] = "*" \/ ToLower(corsOrigins[i]) = ToLower(origin)
         THEN Set(headers, "Access-Control-Allow-Origin", origin)
         ELSE headers

\* Faulty variant of applyCORSOrigin: the header is set to the list entry that
\* matched, not to the Origin.
applyCORSOriginEntry(headers, corsOrigins, origin) ==
    IF Len(corsOrigins) = 0
    THEN Set(headers, "Access-Control-Allow-Origin", "*")
    ELSE IF \E i \in 1..Len(corsOrigins) : corsOrigins[i] = "*" \/ corsOrigins[i] = origin
         THEN Set(headers, "Access-Control-Allow-Origin",
                  corsOrigins[CHOOSE i \in 1..Len(corsOrigins) :
                                  corsOrigins[i] = "*" \/ corsOrigins[i] = origin])
         ELSE headers

\* applyCORS: the Access-Control-Allow-Origin header
applyCORSOrigin(headers, corsOrigins, origin) ==
    IF Len(corsOrigins) = 0
    THEN Set(headers, "Access-Control-Allow-Origin", "*")
    ELSE IF \E i \in 1..Len(corsOrigins) : corsOrigins[i] = "*" \/ corsOrigins[i] = origin
         THEN Set(headers, "Access-Control-Allow-Origin", origin)
         ELSE headers

\* Faulty variant of applyCORS: the other CORS headers are set only for an origin
\* that was allowed.
applyCORSMatchedOnly(headers, corsOrigins, origin) ==
    IF "Access-Control-Allow-Origin" \in DOMAIN applyCORSOrigin(headers, corsOrigins, origin)
    THEN Set(Set(Set(Set(applyCORSOrigin(headers, corsOrigins, origin),
            "Access-Control-Allow-Methods", "GET, POST, PUT, DELETE, OPTIONS"),
            "Access-Control-Allow-Headers", "Content-Type, Authorization, X-Requested-With"),
            "Access-Control-Allow-Credentials", "true"),
            "Access-Control-Max-Age", "86400")
    ELSE headers

\* applyCORS: the allow-origin header, then the fixed CORS headers
applyCORS(headers, corsOrigins, origin) ==
    Set(Set(Set(Set(applyCORSOrigin(headers, corsOrigins, origin),
        "Access-Control-Allow-Methods", "GET, POST, PUT, DELETE, OPTIONS"),
        "Access-Control-Allow-Headers", "Content-Type, Authorization, X-Requested-With"),
        "Access-Control-Allow-Credentials", "true"),
        "Access-Control-Max-Age", "86400")

\* Faulty variant of applySecurityHeaders: the Content-Security-Policy is missing.
applySecurityHeadersNoCSP(headers) ==
    Set(Set(Set(Set(headers,
        "X-Content-Type-Options", "nosniff"),
        "X-Frame-Options", "DENY"),
        "X-XSS-Protection", "1; mode=block"),
        "Referrer-Policy", "strict-origin-when-cross-origin")

\* applySecurityHeaders
applySecurityHeaders(headers) ==
    Set(Set(Set(Set(Set(headers,
        "X-Content-Type-Options", "nosniff"),
        "X-Frame-Options", "DENY"),
        "X-XSS-Protection", "1; mode=block"),
        "Referrer-Policy", "strict-origin-when-cross-origin"),
        "Content-Security-Policy",
        "default-src 'self'; script-src 'self'; style-src 'self' 'unsafe-inline'")

\* The downstream handler of the tests: it answers 200.
nextServeHTTP(w) == [WriteHeader(w, StatusOK) EXCEPT !.body = @ \o <<"OK">>]

----------------------------------------------------------------------------------------------------------------------------------------
(* Inputs *)

\* Values of SLACK_MCP_RATE_LIMIT
EnvRateLimits == {EnvUnset, EnvText, EnvNum(60), EnvNum(120), EnvNum(0), EnvNum(-10)}

\* Requests: method, Origin, X-Forwarded-For, X-Real-IP, RemoteAddr; the
\* URL path is that of the tests.
Request(method, origin, xff, xri, remoteAddr) ==
    [method |-> method, origin |-> origin, xff |-> xff, xri |-> xri,
     remoteAddr |-> remoteAddr, path |-> <<"/test">>]

\* The request q for another URL path
WithPath(q, path) == [q EXCEPT !.path = path]

\* Clients of the rate limiter: two addresses.
RateRequests ==
    { Request("GET", "", <<>>, <<>>, a) :
        a \in { <<"192.168.1.1", ":", "12345">>,
                <<"192.168.1.2", ":", "12346">> } }

\* Allow-lists (SecurityConfig.CORSOrigins as parseCORSOrigins returns it)
CORSConfigs == { <<>>, <<"*">>, <<"https://a.com", "https://b.com">> }

\* Requests of one client to the pipeline: plain and preflight, without an
\* Origin, with a listed one and with an unlisted one.
PipelineRequests ==
    { Request(m, o, <<>>, <<>>, <<"192.168.1.1", ":", "12345">>) :
        m \in {"GET", "OPTIONS"},
        o \in {"", "https://a.com", "https://c.com"} }

\* Allow-lists and requests for the CORS policy: the wildcard alone and after
\* another entry; an Origin that is absent, listed, unlisted, listed but for
\* its case, and the wildcard itself.
CORSLists == CORSConfigs \cup { <<"https://a.com", "*">> }

CORSRequests ==
    { Request("GET", o, <<>>, <<>>, <<"192.168.1.1", ":", "12345">>) :
        o \in {"", "https://a.com", "https://c.com", "HTTPS://A.COM", "*"} }
    \cup { Request("OPTIONS", "https://a.com", <<>>, <<>>, <<"192.168.1.1", ":", "12345">>) }

\* Requests that differ in what names the client: X-Forwarded-For with one
\* entry, and with blanks, further entries and an X-Real-IP beside it;
\* X-Real-IP alone; RemoteAddr with the same address and two ports, as
\* bracketed IPv6 with a port, and without a port.
ClientRequests ==
    { Request("GET", "", <<"10.0.0.1">>, <<>>, <<"192.168.1.1", ":", "12345">>),
      Request("GET", "", <<" ", "10.0.0.1", " ", ",", " ", "10.0.0.2">>,
              <<"10.0.0.9">>, <<"192.168.1.1", ":", "12345">>),
      Request("GET", "", <<>>, <<"10.0.0.9">>, <<"192.168.1.1", ":", "12345">>),
      Request("GET", "", <<>>, <<>>, <<"192.168.1.1", ":", "12345">>),
      Request("GET", "", <<>>, <<>>, <<"192.168.1.1", ":", "54321">>),
      Request("GET", "", <<>>, <<>>, <<"[", ":", ":", "1", "]", ":", "8080">>),
      Request("GET", "", <<>>, <<>>, <<"192.168.1.1">>) }

\* Requests of one sender, from one transport address, that differ in their
\* X-Forwarded-For header: two addresses, the first of them again with a
\* blank and a second entry, and a text that is no address.
ForwardedRequests ==
    { Request("GET", "", xff, <<>>, <<"192.168.1.1", ":", "12345">>) :
        xff \in { <<"10.0.0.1">>, <<" ", "10.0.0.1", ",", "10.0.0.2">>,
                  <<"10.0.0.2">>, <<"not-an-ip">> } }

\* URL paths: that of the tests, and /a"b (requested as /a%22b)
Paths == { <<"/test">>, <<"/a", Quote, "b">> }

\* Requests of one client for either path
ThrottleRequests ==
    { WithPath(Request("GET", "", <<>>, <<>>, <<"192.168.1.1", ":", "12345">>), path) :
        path \in Paths }

\* Clock advances: one millisecond, or one millisecond short of a refill.
TickSteps == {d \in {Millisecond, config.RateLimit - Millisecond} : d > 0}

----------------------------------------------------------------------------
(* HealthChecker: statuses, the collaborators, the checks, the document    *)

HealthStatusHealthy == "healthy"
HealthStatusUnhealthy == "unhealthy"

CheckStatusOK == "ok"
CheckStatusError == "error"

StatusServiceUnavailable == 503
StatusInternalServerError == 500

\* version.Version
Version == "dev"

\* h.provider: nil, or an ApiProvider with the results of IsReady() (ready,
\* err) and whether Slack() returns a client.
Provider(isNil, ready, err, slack) ==
    [nil |-> isNil, ready |-> ready, err |-> err, slack |-> slack]

NilProvider == Provider(TRUE, FALSE, FALSE, FALSE)

Providers ==
    {NilProvider} \cup {Provider(FALSE, r, e, c) : r \in BOOLEAN, e \in BOOLEAN, c \in BOOLEAN}

\* os.Getenv of the three token variables
Tokens(xoxp, xoxc, xoxd) == [XOXP |-> xoxp, XOXC |-> xoxc, XOXD |-> xoxd]

NoTokens == Tokens("", "", "")

Environments ==
    {Tokens(p, c, d) : p \in {"demo", "xoxp-1"}, c \in {"", "demo"}, d \in {"", "demo"}}

\* What AuthTestContext(ctx) does: it answers, it fails, or it gives no
\* answer before the deadline of ctx.
AuthTestOutcomes == {"ok", "err", "timeout"}

\* checkCacheSystem
checkCacheSystem(p) ==
    IF p.nil THEN CheckStatusError
    ELSE IF p.err \/ ~p.ready THEN CheckStatusError
    ELSE CheckStatusOK

\* Faulty variant of demoMode: only the XOXP token is looked at.
demoModeXOXPOnly(e) == e.XOXP = "demo"

\* checkSlackAPI: the demo mode of the token variables
demoMode(e) == e.XOXP = "demo" \/ (e.XOXC = "demo" /\ e.XOXD = "demo")

\* checkSlackAPI: whether it gets as far as AuthTestContext
callsAuthTest(p, e) == ~(p.nil \/ ~p.slack) /\ ~demoMode(e)

\* Faulty variant of checkSlackAPI: the demo skip precedes the nil test.
checkSlackAPIDemoFirst(p, e, outcome) ==
    IF demoMode(e) THEN CheckStatusOK
    ELSE IF p.nil \/ ~p.slack THEN CheckStatusError
    ELSE IF outcome # "ok" THEN CheckStatusError
    ELSE CheckStatusOK

\* Faulty variant of checkSlackAPI: a call that ctx cut short is taken for an
\* answer.
checkSlackAPITimeoutOk(p, e, outcome) ==
    IF p.nil \/ ~p.slack THEN CheckStatusError
    ELSE IF demoMode(e) THEN CheckStatusOK
    ELSE IF outcome = "err" THEN CheckStatusError
    ELSE CheckStatusOK

\* checkSlackAPI, given what AuthTestContext does if it is called
checkSlackAPI(p, e, outcome) ==
    IF p.nil \/ ~p.slack THEN CheckStatusError
    ELSE IF demoMode(e) THEN CheckStatusOK
    ELSE IF outcome # "ok" THEN CheckStatusError
    ELSE CheckStatusOK

\* map[string]CheckStatus and map[string]string, empty
NoChecks == [n \in {} |-> ""]

\* HealthResponse
HealthResponse(status, timestamp, chks, uptime, dtls) ==
    [Status |-> status, Timestamp |-> timestamp, Version |-> Version,
     Checks |-> chks, Uptime |-> uptime, Details |-> dtls]

\* The response of a probe that has none yet
NilResponse == HealthResponse("", 0, NoChecks, 0, NoChecks)

\* Faulty variant of LivenessResponse: the liveness probe reports the cache check.
LivenessResponseFromCache(t, uptime) ==
    HealthResponse(IF checkCacheSystem(provider) = CheckStatusError
                   THEN HealthStatusUnhealthy ELSE HealthStatusHealthy,
                   t, Set(NoChecks, "cache", checkCacheSystem(provider)), uptime, NoChecks)

\* LivenessHandler: its response
LivenessResponse(t, uptime) ==
    HealthResponse(HealthStatusHealthy, t,
                   Set(NoChecks, "application", CheckStatusOK), uptime, NoChecks)

\* Faulty variant of Aggregate: the last check decides the overall status.
AggregateLast(overall, status) ==
    IF status = CheckStatusError THEN HealthStatusUnhealthy ELSE HealthStatusHealthy

\* performHealthChecks: if status == CheckStatusError { overallStatus = unhealthy }
Aggregate(overall, status) ==
    IF status = CheckStatusError THEN HealthStatusUnhealthy ELSE overall

\* Faulty variant of Detail: every check gets a detail, failed or not.
DetailAlways(dtls, name, status, text) == Set(dtls, name, text)

\* performHealthChecks: details[name] is set if the check failed
Detail(dtls, name, status, text) ==
    IF status = CheckStatusError THEN Set(dtls, name, text) ELSE dtls

\* Faulty variant of includeReadiness: every endpoint probes the upstream dependency.
includeReadinessAlways(e) == TRUE

\* The includeReadiness argument of HealthHandler (false) and ReadinessHandler (true)
includeReadiness(e) == e = "ready"

\* Faulty variant of AfterCache: a failed cache check ends the probe.
AfterCacheFailFast(e, cacheStatus) ==
    IF includeReadiness(e) /\ cacheStatus # CheckStatusError THEN "slack" ELSE "return"

\* performHealthChecks: after the cache check, if includeReadiness
AfterCache(e, cacheStatus) == IF includeReadiness(e) THEN "slack" ELSE "return"

\* The timeout HealthHandler and ReadinessHandler give their ctx
Timeout(e) == IF e = "ready" THEN 15 * Second ELSE 10 * Second

\* A response writer nothing was written to
NoHealthResponse == [status |-> 0, headers |-> NoHeaders, body |-> <<>>]

\* w.Header().Set: headers set after the status line are not sent
HeaderSet(w, name, value) ==
    IF w.status = 0 THEN [w EXCEPT !.headers = Set(@, name, value)] ELSE w

\* w.Write
Write(w, chunk) == [w EXCEPT !.body = Append(@, chunk)]

\* http.Error
Error(w, text, code) ==
    Write(WriteHeader(HeaderSet(HeaderSet(w,
              "Content-Type", "text/plain; charset=utf-8"),
              "X-Content-Type-Options", "nosniff"),
          code),
          [text |-> text])

\* encoding/json, for the HealthResponse: a JSON text is a sequence of tokens,
\* a digit, a quote, a backslash, a brace, a colon or a comma each being one
\* token, and a run of other characters being one.

DigitChars == <<"0", "1", "2", "3", "4", "5", "6", "7", "8", "9">>

\* strconv.AppendInt: the decimal digits of n >= 0
RECURSIVE Digits(_)
Digits(n) ==
    IF n < 10 THEN <<DigitChars[n + 1]>>
    ELSE Digits(n \div 10) \o <<DigitChars[(n % 10) + 1]>>

\* A Go string as tokens, and back
Tokens1(str) == IF str = "" THEN <<>> ELSE <<str>>
Text(tokens) == IF tokens = <<>> THEN "" ELSE tokens[1]

\* A JSON string: the text between quotes, a quote or backslash in it
\* escaped by a backslash
RECURSIVE Escape(_)
Escape(text) ==
    IF text = <<>> THEN <<>>
    ELSE (IF Head(text) \in {Quote, "\\"} THEN <<"\\", Head(text)>> ELSE <<Head(text)>>)
         \o Escape(Tail(text))

JSONString(text) == <<Quote>> \o Escape(text) \o <<Quote>>

\* The keys of the maps of a HealthResponse, sorted as encoding/json sorts
\* the keys of a map
SortedKeys == <<"application", "cache", "slack_api">>

\* A map[string]string or map[string]CheckStatus as a JSON object
RECURSIVE MarshalMembers(_, _, _)
MarshalMembers(m, i, first) ==
    IF i > Len(SortedKeys) THEN <<>>
    ELSE IF SortedKeys[i] \notin DOMAIN m THEN MarshalMembers(m, i + 1, first)
    ELSE (IF first THEN <<>> ELSE <<",">>)
         \o JSONString(Tokens1(SortedKeys[i])) \o <<":">> \o JSONString(Tokens1(m[SortedKeys[i]]))
         \o MarshalMembers(m, i + 1, FALSE)

MarshalMap(m) == <<"{">> \o MarshalMembers(m, 1, TRUE) \o <<"}">>

\* Faulty variant of Marshal: the uptime is written in seconds.
MarshalUptimeSeconds(r) ==
    <<"{">>
    \o JSONString(<<"status">>) \o <<":">> \o JSONString(Tokens1(r.Status)) \o <<",">>
    \o JSONString(<<"timestamp">>) \o <<":">> \o JSONString(Digits(r.Timestamp)) \o <<",">>
    \o JSONString(<<"version">>) \o <<":">> \o JSONString(Tokens1(r.Version)) \o <<",">>
    \o JSONString(<<"checks">>) \o <<":">> \o MarshalMap(r.Checks) \o <<",">>
    \o JSONString(<<"uptime">>) \o <<":">> \o Digits(r.Uptime \div Second)
    \o (IF DOMAIN r.Details = {} THEN <<>>
        ELSE <<",">> \o JSONString(<<"details">>) \o <<":">> \o MarshalMap(r.Details))
    \o <<"}">>

\* json.Marshal of a HealthResponse: the fields in the order of the struct
\* under the names of their tags; the time as a string, the uptime (a
\* pointer that is never nil) as the number of its units, the details
\* omitted if empty.
Marshal(r) ==
    <<"{">>
    \o JSONString(<<"status">>) \o <<":">> \o JSONString(Tokens1(r.Status)) \o <<",">>
    \o JSONString(<<"timestamp">>) \o <<":">> \o JSONString(Digits(r.Timestamp)) \o <<",">>
    \o JSONString(<<"version">>) \o <<":">> \o JSONString(Tokens1(r.Version)) \o <<",">>
    \o JSONString(<<"checks">>) \o <<":">> \o MarshalMap(r.Checks) \o <<",">>
    \o JSONString(<<"uptime">>) \o <<":">> \o Digits(r.Uptime)
    \o (IF DOMAIN r.Details = {} THEN <<>>
        ELSE <<",">> \o JSONString(<<"details">>) \o <<":">> \o MarshalMap(r.Details))
    \o <<"}">>

\* json.Unmarshal's reading of a JSON text: a value is a string
\* [str |-> text], a number [num |-> n] or an object [obj |-> members]; a
\* text that is not a value, or is one followed by more, is an error.
NoValue == [ok |-> FALSE]

\* The text of a string up to its closing quote; a backslash makes the token
\* after it part of the text.
RECURSIVE ScanString(_, _, _)
ScanString(s, j, text) ==
    IF j > Len(s) THEN NoValue
    ELSE IF s[j] = Quote THEN [ok |-> TRUE, val |-> [str |-> text], next |-> j + 1]
    ELSE IF s[j] = "\\"
         THEN IF j + 1 > Len(s) THEN NoValue
              ELSE ScanString(s, j + 2, Append(text, s[j + 1]))
    ELSE ScanString(s, j + 1, Append(text, s[j]))

ParseString(s, i) ==
    IF i > Len(s) \/ s[i] # Quote THEN NoValue ELSE ScanString(s, i + 1, <<>>)

IsDigit(token) == \E d \in 1..10 : DigitChars[d] = token

DigitValue(token) == (CHOOSE d \in 1..10 : DigitChars[d] = token) - 1

\* The number a run of digits stands for
RECURSIVE ScanDigits(_, _, _)
ScanDigits(s, j, n) ==
    IF j <= Len(s) /\ IsDigit(s[j]) THEN ScanDigits(s, j + 1, 10 * n + DigitValue(s[j]))
    ELSE [ok |-> TRUE, val |-> [num |-> n], next |-> j]

RECURSIVE ParseValue(_, _)
RECURSIVE ParseMembers(_, _, _)

ParseMembers(s, i, members) ==
    LET name == ParseString(s, i) IN
    IF ~name.ok THEN NoValue
    ELSE IF name.next > Len(s) \/ s[name.next] # ":" THEN NoValue
    ELSE LET v == ParseValue(s, name.next + 1) IN
         IF ~v.ok THEN NoValue
         ELSE LET all == [n \in DOMAIN members \cup {name.val.str} |->
                            IF n = name.val.str THEN v.val ELSE members[n]]
              IN  IF v.next > Len(s) THEN NoValue
                  ELSE IF s[v.next] = "," THEN ParseMembers(s, v.next + 1, all)
                  ELSE IF s[v.next] = "}"
                       THEN [ok |-> TRUE, val |-> [obj |-> all], next |-> v.next + 1]
                  ELSE NoValue

ParseValue(s, i) ==
    IF i > Len(s) THEN NoValue
    ELSE IF s[i] = "{"
         THEN IF i + 1 <= Len(s) /\ s[i + 1] = "}"
              THEN [ok |-> TRUE, val |-> [obj |-> [n \in {} |-> NoValue]], next |-> i + 2]
              ELSE ParseMembers(s, i + 1, [n \in {} |-> NoValue])
    ELSE IF IsDigit(s[i]) THEN ScanDigits(s, i, 0)
    ELSE ParseString(s, i)

Decode(s) ==
    LET v == ParseValue(s, 1) IN
    IF v.ok /\ v.next = Len(s) + 1 THEN v ELSE NoValue

\* A member of a decoded object, or what stands for a missing one
Member(o, name, missing) == IF <<name>> \in DOMAIN o THEN o[<<name>>] ELSE missing

\* A decoded object as a map[string]string
AsMap(v) == [n \in {k[1] : k \in DOMAIN v.obj} |-> Text(v.obj[<<n>>].str)]

\* json.Unmarshal into a HealthResponse: the members with the names of the
\* tags are stored in their fields, a missing member leaves the zero value.
Unmarshal(data) ==
    LET v == Decode(data) IN
    IF ~v.ok \/ "obj" \notin DOMAIN v.val THEN [err |-> TRUE, value |-> NilResponse]
    ELSE LET o == v.val.obj IN
         [err |-> FALSE,
          value |->
             [Status |-> Text(Member(o, "status", [str |-> <<>>]).str),
              Timestamp |-> ScanDigits(Member(o, "timestamp", [str |-> <<>>]).str, 1, 0).val.num,
              Version |-> Text(Member(o, "version", [str |-> <<>>]).str),
              Checks |-> AsMap(Member(o, "checks", [obj |-> <<>>])),
              Uptime |-> Member(o, "uptime", [num |-> 0]).num,
              Details |-> AsMap(Member(o, "details", [obj |-> <<>>]))]]

\* Faulty variant of writeHealthResponse: every document is answered 200.
writeHealthResponseAlwaysOK(w, r, encodeErr) ==
    LET w1 == HeaderSet(w, "Content-Type", "application/json")
        w2 == WriteHeader(w1, StatusOK)
    IN  IF encodeErr
        THEN Error(w2, "Internal server error", StatusInternalServerError)
        ELSE Write(w2, [json |-> Marshal(r)])

\* writeHealthResponse; encodeErr says whether json.NewEncoder(w).Encode fails
writeHealthResponse(w, r, encodeErr) ==
    LET w1 == HeaderSet(w, "Content-Type", "application/json")
        w2 == IF r.Status = HealthStatusUnhealthy
              THEN WriteHeader(w1, StatusServiceUnavailable)
              ELSE WriteHeader(w1, StatusOK)
    IN  IF encodeErr
        THEN Error(w2, "Internal server error", StatusInternalServerError)
        ELSE Write(w2, [json |-> Marshal(r)])

\* NewHealthChecker, and no probe has arrived
NewHealthChecker(p, e) ==
    /\ provider = p
    /\ getenv = e
    /\ startTime = now
    /\ probePc = [q \in Probes |-> "new"]
    /\ endpoint = [q \in Probes |-> ""]
    /\ deadline = [q \in Probes |-> 0]
    /\ checks = [q \in Probes |-> NoChecks]
    /\ details = [q \in Probes |-> NoChecks]
    /\ overallStatus = [q \in Probes |-> ""]
    /\ response = [q \in Probes |-> NilResponse]
    /\ hw = [q \in Probes |-> NoHealthResponse]
    /\ callLog = <<>>

----------------------------------------------------------------------------
(* State *)

NoLock == [readers |-> {}, pending |-> None, writer |-> None]

Construct(ctor, value, cors, headers) ==
    /\ env = [ctor |-> ctor, rateLimit |-> value]
    /\ config = IF ctor = "New"
                THEN NewSecurityMiddleware(value, cors, headers)
                ELSE SecurityConfig(cors, headers, 0)
    /\ rateLimiters = [k \in {} |-> None]
    /\ limiters = <<>>
    /\ mu = NoLock
    /\ now = 0
    /\ ticks = 0
    /\ started = 0
    /\ pc = [r \in Reqs |-> "new"]
    /\ req = [r \in Reqs |-> Request("", "", <<>>, <<>>, <<>>)]
    /\ limiter = [r \in Reqs |-> None]
    /\ exists = [r \in Reqs |-> FALSE]
    /\ resp = [r \in Reqs |-> NoResponse]
    /\ stages = [r \in Reqs |-> <<>>]
    /\ created = <<>>
    /\ allowLog = <<>>

\* The middleware of the tests: 60 requests a minute from the environment,
\* or the struct literal with RateLimit 0; no allow-list, security headers
\* on (the defaults).
Init ==
    /\ \/ Construct("New", EnvNum(60), <<>>, TRUE)
       \/ Construct("literal", EnvUnset, <<>>, TRUE)
    /\ NewHealthChecker(NilProvider, NoTokens)

\* A middleware limited to 60 requests a minute or not limited, with any
\* allow-list and either setting of the security headers; or one with the
\* defaults and any SLACK_MCP_RATE_LIMIT.
InitPipeline ==
    /\ \/ \E cors \in CORSConfigs, headers \in BOOLEAN :
             \/ Construct("New", EnvNum(60), cors, headers)
             \/ Construct("literal", EnvUnset, cors, headers)
       \/ \E value \in EnvRateLimits : Construct("New", value, <<>>, TRUE)
    /\ NewHealthChecker(NilProvider, NoTokens)

\* Faulty variant of key: one limiter for all clients.
keyShared(r) == <<>>

\* checkRateLimit: the key it hands to getRateLimiter
key(r) == getClientIP(req[r])

\* Faulty variant of Disabled: the test for a zero interval is missing.
DisabledNever(cfg) == FALSE

\* checkRateLimit: if sm.config.RateLimit == 0, rate limiting is disabled
Disabled(cfg) == cfg.RateLimit = 0

\* Faulty variant of DoubleCheck: no second look, the limiter is always created.
DoubleCheckSkipped(m, k) == FALSE

\* getRateLimiter: the second look at the map, under the write lock
DoubleCheck(m, k) == k \in DOMAIN m

\* sync.RWMutex: RLock and Lock wait while a writer has announced itself
NoWriter(m) == m.pending = None

\* Faulty variant of ReadersGone: the writer does not wait for the readers.
ReadersIgnored(m) == TRUE

\* sync.RWMutex: Lock waits until the readers have left
ReadersGone(m) == m.readers = {}

\* Faulty variant of AfterCheck: the return after a refused check is missing.
AfterCheckNoReturn(ok) == "applyCORS"

\* Handler: if !sm.checkRateLimit(r, w) { return }
AfterCheck(ok) == IF ok THEN "applyCORS" ELSE "done"

\* Faulty variant of IsPreflight: no preflight short-circuit.
IsPreflightNever(q) == FALSE

\* Handler: if r.Method == http.MethodOptions
IsPreflight(q) == q.method = "OPTIONS"

----------------------------------------------------------------------------
(* Handler, one request r per goroutine *)

\* Faulty variant of HandlerEnter: the security headers are set before the
\* rate-limit check.
HandlerEnterHeadersFirst(r, q) ==
    /\ pc[r] = "new"
    /\ r = started + 1
    /\ req' = [req EXCEPT ![r] = q]
    /\ started' = r
    /\ stages' = [stages EXCEPT ![r] = Append(@, "checkRateLimit")]
    /\ pc' = [pc EXCEPT ![r] = IF Disabled(config) THEN AfterCheck(TRUE) ELSE "RLock"]
    /\ resp' = [resp EXCEPT ![r].headers =
                   IF config.EnableSecurityHeaders THEN applySecurityHeaders(@) ELSE @]
    /\ UNCHANGED <<hvars, env, config, rateLimiters, limiters, mu, now, ticks,
                   limiter, exists, created, allowLog>>

\* Faulty variant of HandlerEnter: a preflight is not rate limited.
HandlerEnterPreflightFree(r, q) ==
    /\ pc[r] = "new"
    /\ r = started + 1
    /\ req' = [req EXCEPT ![r] = q]
    /\ started' = r
    /\ stages' = [stages EXCEPT ![r] = Append(@, "checkRateLimit")]
    /\ pc' = [pc EXCEPT ![r] = IF Disabled(config) \/ IsPreflight(q)
                               THEN AfterCheck(TRUE) ELSE "RLock"]
    /\ UNCHANGED <<hvars, env, config, rateLimiters, limiters, mu, now, ticks,
                   limiter, exists, resp, created, allowLog>>

\* Handler entry up to checkRateLimit's test of the configured interval.
HandlerEnter(r, q) ==
    /\ pc[r] = "new"
    /\ r = started + 1
    /\ req' = [req EXCEPT ![r] = q]
    /\ started' = r
    /\ stages' = [stages EXCEPT ![r] = Append(@, "checkRateLimit")]
    /\ pc' = [pc EXCEPT ![r] = IF Disabled(config) THEN AfterCheck(TRUE) ELSE "RLock"]
    /\ UNCHANGED <<hvars, env, config, rateLimiters, limiters, mu, now, ticks,
                   limiter, exists, resp, created, allowLog>>

\* getRateLimiter: sm.mu.RLock()
RLock(r) ==
    /\ pc[r] = "RLock"
    /\ NoWriter(mu)
    /\ mu' = [mu EXCEPT !.readers = @ \cup {r}]
    /\ pc' = [pc EXCEPT ![r] = "lookup"]
    /\ UNCHANGED <<hvars, env, config, rateLimiters, limiters, now, ticks, started,
                   req, limiter, exists, resp, stages, created, allowLog>>

\* getRateLimiter: limiter, exists := sm.rateLimiters[ip]
Lookup(r) ==
    /\ pc[r] = "lookup"
    /\ exists' = [exists EXCEPT ![r] = key(r) \in DOMAIN rateLimiters]
    /\ limiter' = [limiter EXCEPT ![r] =
                      IF key(r) \in DOMAIN rateLimiters THEN rateLimiters[key(r)] ELSE None]
    /\ pc' = [pc EXCEPT ![r] = "RUnlock"]
    /\ UNCHANGED <<hvars, env, config, rateLimiters, limiters, mu, now, ticks, started,
                   req, resp, stages, created, allowLog>>

\* Faulty variant of RUnlock: the read lock is kept.
RUnlockKept(r) ==
    /\ pc[r] = "RUnlock"
    /\ pc' = [pc EXCEPT ![r] = IF exists[r] THEN "Allow" ELSE "Lock"]
    /\ UNCHANGED <<hvars, env, config, rateLimiters, limiters, mu, now, ticks, started,
                   req, limiter, exists, resp, stages, created, allowLog>>

\* getRateLimiter: sm.mu.RUnlock(); if !exists
RUnlock(r) ==
    /\ pc[r] = "RUnlock"
    /\ mu' = [mu EXCEPT !.readers = @ \ {r}]
    /\ pc' = [pc EXCEPT ![r] = IF exists[r] THEN "Allow" ELSE "Lock"]
    /\ UNCHANGED <<hvars, env, config, rateLimiters, limiters, now, ticks, started,
                   req, limiter, exists, resp, stages, created, allowLog>>

\* getRateLimiter: sm.mu.Lock(), first half: the writer announces itself and
\* from then on no new reader gets in.
Lock(r) ==
    /\ pc[r] = "Lock"
    /\ NoWriter(mu)
    /\ mu' = [mu EXCEPT !.pending = r]
    /\ pc' = [pc EXCEPT ![r] = "LockWait"]
    /\ UNCHANGED <<hvars, env, config, rateLimiters, limiters, now, ticks, started,
                   req, limiter, exists, resp, stages, created, allowLog>>

\* sm.mu.Lock(), second half: the writer waits for the readers to leave.
LockAcquire(r) ==
    /\ pc[r] = "LockWait"
    /\ ReadersGone(mu)
    /\ mu' = [mu EXCEPT !.writer = r]
    /\ pc' = [pc EXCEPT ![r] = "recheck"]
    /\ UNCHANGED <<hvars, env, config, rateLimiters, limiters, now, ticks, started,
                   req, limiter, exists, resp, stages, created, allowLog>>

\* Faulty variant of Recheck: the map keeps only the limiter created last.
RecheckEvicting(r) ==
    /\ pc[r] = "recheck"
    /\ IF DoubleCheck(rateLimiters, key(r))
       THEN /\ limiter' = [limiter EXCEPT ![r] = rateLimiters[key(r)]]
            /\ exists' = [exists EXCEPT ![r] = TRUE]
            /\ UNCHANGED <<rateLimiters, limiters, created>>
       ELSE /\ limiters' = Append(limiters, NewLimiter(config.RateLimit))
            /\ limiter' = [limiter EXCEPT ![r] = Len(limiters) + 1]
            /\ rateLimiters' = [k \in {key(r)} |-> Len(limiters) + 1]
            /\ created' = Append(created, key(r))
            /\ UNCHANGED exists
    /\ pc' = [pc EXCEPT ![r] = "Unlock"]
    /\ UNCHANGED <<hvars, env, config, mu, now, ticks, started, req, resp, stages, allowLog>>

\* getRateLimiter: the double check; a missing limiter is created and stored.
Recheck(r) ==
    /\ pc[r] = "recheck"
    /\ IF DoubleCheck(rateLimiters, key(r))
       THEN /\ limiter' = [limiter EXCEPT ![r] = rateLimiters[key(r)]]
            /\ exists' = [exists EXCEPT ![r] = TRUE]
            /\ UNCHANGED <<rateLimiters, limiters, created>>
       ELSE /\ limiters' = Append(limiters, NewLimiter(config.RateLimit))
            /\ limiter' = [limiter EXCEPT ![r] = Len(limiters) + 1]
            /\ rateLimiters' = [k \in DOMAIN rateLimiters \cup {key(r)} |->
                                   IF k = key(r) THEN Len(limiters) + 1 ELSE rateLimiters[k]]
            /\ created' = Append(created, key(r))
            /\ UNCHANGED exists
    /\ pc' = [pc EXCEPT ![r] = "Unlock"]
    /\ UNCHANGED <<hvars, env, config, mu, now, ticks, started, req, resp, stages, allowLog>>

\* getRateLimiter: sm.mu.Unlock()
Unlock(r) ==
    /\ pc[r] = "Unlock"
    /\ mu' = [mu EXCEPT !.writer = None, !.pending = None]
    /\ pc' = [pc EXCEPT ![r] = "Allow"]
    /\ UNCHANGED <<hvars, env, config, rateLimiters, limiters, now, ticks, started,
                   req, limiter, exists, resp, stages, created, allowLog>>

\* checkRateLimit: limiter.Allow(), and the 429 of a refused request.
Allow(r) ==
    /\ pc[r] = "Allow"
    /\ LET lim == limiters[limiter[r]]
           ok == AllowOk(lim, config.RateLimit, now)
       IN  /\ limiters' = [limiters EXCEPT ![limiter[r]] = AllowNext(lim, config.RateLimit, now)]
           /\ allowLog' = Append(allowLog,
                 [r |-> r, ip |-> getClientIP(req[r]), t |-> now, ok |-> ok])
           /\ pc' = [pc EXCEPT ![r] = AfterCheck(ok)]
           /\ resp' = [resp EXCEPT ![r] =
                 IF ok THEN @
                 ELSE writeErrorResponse(@, req[r], StatusTooManyRequests,
                                         <<"RATE_LIMIT_EXCEEDED">>,
                                         <<"Too many requests from this client">>,
                                         RateLimitDetails(config))]
    /\ UNCHANGED <<hvars, env, config, rateLimiters, mu, now, ticks, started,
                   req, limiter, exists, stages, created>>

\* Handler: sm.applyCORS(w, r)
ApplyCORS(r) ==
    /\ pc[r] = "applyCORS"
    /\ resp' = [resp EXCEPT ![r].headers = applyCORS(@, config.CORSOrigins, req[r].origin)]
    /\ stages' = [stages EXCEPT ![r] = Append(@, "applyCORS")]
    /\ pc' = [pc EXCEPT ![r] = "securityHeaders"]
    /\ UNCHANGED <<hvars, env, config, rateLimiters, limiters, mu, now, ticks, started,
                   req, limiter, exists, created, allowLog>>

\* Handler: if sm.config.EnableSecurityHeaders { sm.applySecurityHeaders(w) }
SecurityHeaders(r) ==
    /\ pc[r] = "securityHeaders"
    /\ IF config.EnableSecurityHeaders
       THEN /\ resp' = [resp EXCEPT ![r].headers = applySecurityHeaders(@)]
            /\ stages' = [stages EXCEPT ![r] = Append(@, "applySecurityHeaders")]
       ELSE UNCHANGED <<resp, stages>>
    /\ pc' = [pc EXCEPT ![r] = "preflight"]
    /\ UNCHANGED <<hvars, env, config, rateLimiters, limiters, mu, now, ticks, started,
                   req, limiter, exists, created, allowLog>>

\* Faulty variant of Serve: a request whose Origin got no Allow-Origin header is
\* rejected with 403 instead of being handed on.
ServeRejectUnlisted(r) ==
    /\ pc[r] = "preflight"
    /\ IF "Access-Control-Allow-Origin" \notin DOMAIN resp[r].headers
       THEN /\ resp' = [resp EXCEPT ![r] = WriteHeader(@, 403)]
            /\ stages' = [stages EXCEPT ![r] = Append(@, "rejected")]
       ELSE IF IsPreflight(req[r])
       THEN /\ resp' = [resp EXCEPT ![r] = WriteHeader(@, StatusOK)]
            /\ stages' = [stages EXCEPT ![r] = Append(@, "preflight")]
       ELSE /\ resp' = [resp EXCEPT ![r] = nextServeHTTP(@)]
            /\ stages' = [stages EXCEPT ![r] = Append(@, "next")]
    /\ pc' = [pc EXCEPT ![r] = "done"]
    /\ UNCHANGED <<hvars, env, config, rateLimiters, limiters, mu, now, ticks, started,
                   req, limiter, exists, created, allowLog>>

\* Handler: the preflight short-circuit, else next.ServeHTTP(w, r)
Serve(r) ==
    /\ pc[r] = "preflight"
    /\ IF IsPreflight(req[r])
       THEN /\ resp' = [resp EXCEPT ![r] = WriteHeader(@, StatusOK)]
            /\ stages' = [stages EXCEPT ![r] = Append(@, "preflight")]
       ELSE /\ resp' = [resp EXCEPT ![r] = nextServeHTTP(@)]
            /\ stages' = [stages EXCEPT ![r] = Append(@, "next")]
    /\ pc' = [pc EXCEPT ![r] = "done"]
    /\ UNCHANGED <<hvars, env, config, rateLimiters, limiters, mu, now, ticks, started,
                   req, limiter, exists, created, allowLog>>

\* Time passes.
Tick ==
    /\ ticks < MaxTicks
    /\ \E d \in TickSteps : now' = now + d
    /\ ticks' = ticks + 1
    /\ UNCHANGED <<hvars, env, config, rateLimiters, limiters, mu, started, pc,
                   req, limiter, exists, resp, stages, created, allowLog>>

Step(r) ==
    \/ RLock(r)
    \/ Lookup(r)
    \/ RUnlock(r)
    \/ Lock(r)
    \/ LockAcquire(r)
    \/ Recheck(r)
    \/ Unlock(r)
    \/ Allow(r)
    \/ ApplyCORS(r)
    \/ SecurityHeaders(r)
    \/ Serve(r)

\* Requests arrive at any time and are served concurrently.
Arrive(r) == \E q \in RateRequests : HandlerEnter(r, q)

Next ==
    \/ \E r \in Reqs : Arrive(r) \/ Step(r)
    \/ Tick

Spec == Init /\ [][Next]_vars

\* The limited middleware and its concurrent requests under a fair
\* scheduler, the clock standing still: a goroutine that can take its next
\* step takes it, and a goroutine that waits for the mutex gets it once it
\* stays free.
InitLock ==
    /\ Construct("New", EnvNum(60), <<>>, TRUE)
    /\ NewHealthChecker(NilProvider, NoTokens)

NextLock == \E r \in Reqs : Arrive(r) \/ Step(r)

SpecLockFair == InitLock /\ [][NextLock]_vars /\ \A r \in Reqs : WF_vars(Step(r))

\* One client that sends its next request when the last one is answered.
ArriveInTurn(r) ==
    /\ \A o \in Reqs : pc[o] \in {"new", "done"}
    /\ \E q \in PipelineRequests : HandlerEnter(r, q)

NextPipeline ==
    \/ \E r \in Reqs : ArriveInTurn(r) \/ Step(r)
    \/ Tick

SpecPipeline == InitPipeline /\ [][NextPipeline]_vars

\* A middleware with any of the allow-lists, limited to 60 requests a minute or
\* not limited, and one client that sends requests with any Origin in turn.
InitCORS ==
    /\ \E cors \in CORSLists :
          \/ Construct("New", EnvNum(60), cors, TRUE)
          \/ Construct("literal", EnvUnset, cors, TRUE)
    /\ NewHealthChecker(NilProvider, NoTokens)

ArriveCORS(r) ==
    /\ \A o \in Reqs : pc[o] \in {"new", "done"}
    /\ \E q \in CORSRequests : HandlerEnter(r, q)

NextCORS ==
    \/ \E r \in Reqs : ArriveCORS(r) \/ Step(r)
    \/ Tick

SpecCORS == InitCORS /\ [][NextCORS]_vars

\* A middleware limited to 60 requests a minute, and requests that name their
\* client in every way getClientIP knows, one after the other.
InitClientIP ==
    /\ Construct("New", EnvNum(60), <<>>, TRUE)
    /\ NewHealthChecker(NilProvider, NoTokens)

ArriveClient(r) ==
    /\ \A o \in Reqs : pc[o] \in {"new", "done"}
    /\ \E q \in ClientRequests : HandlerEnter(r, q)

NextClientIP ==
    \/ \E r \in Reqs : ArriveClient(r) \/ Step(r)
    \/ Tick

SpecClientIP == InitClientIP /\ [][NextClientIP]_vars

\* A middleware limited to 60 requests a minute, and one sender that sets
\* X-Forwarded-For as it likes, one request after the other.
InitForwarded ==
    /\ Construct("New", EnvNum(60), <<>>, TRUE)
    /\ NewHealthChecker(NilProvider, NoTokens)

ArriveForwarded(r) ==
    /\ \A o \in Reqs : pc[o] \in {"new", "done"}
    /\ \E q \in ForwardedRequests : HandlerEnter(r, q)

NextForwarded ==
    \/ \E r \in Reqs : ArriveForwarded(r) \/ Step(r)
    \/ Tick

SpecForwarded == InitForwarded /\ [][NextForwarded]_vars

\* A middleware built from the environment with SLACK_MCP_RATE_LIMIT unset,
\* 60 or 120, and one client that sends requests for either path in turn.
InitThrottle ==
    /\ \E value \in {EnvUnset, EnvNum(60), EnvNum(120)} :
          Construct("New", value, <<>>, TRUE)
    /\ NewHealthChecker(NilProvider, NoTokens)

ArriveThrottle(r) ==
    /\ \A o \in Reqs : pc[o] \in {"new", "done"}
    /\ \E q \in ThrottleRequests : HandlerEnter(r, q)

NextThrottle ==
    \/ \E r \in Reqs : ArriveThrottle(r) \/ Step(r)
    \/ Tick

SpecThrottle == InitThrottle /\ [][NextThrottle]_vars

----------------------------------------------------------------------------
(* HealthChecker, one probe p per goroutine *)

\* The time that has passed when a request arrives: the clock has advanced
\* since it was last read.
Elapsed == {Millisecond}

Max(a, b) == IF a >= b THEN a ELSE b

\* HealthHandler and ReadinessHandler up to the first check: the ctx with its
\* timeout, and the locals of performHealthChecks.
Begin(p, e) ==
    /\ probePc[p] = "new"
    /\ \E d \in Elapsed : now' = now + d
    /\ endpoint' = [endpoint EXCEPT ![p] = e]
    /\ deadline' = [deadline EXCEPT ![p] = now' + Timeout(e)]
    /\ checks' = [checks EXCEPT ![p] = NoChecks]
    /\ details' = [details EXCEPT ![p] = NoChecks]
    /\ overallStatus' = [overallStatus EXCEPT ![p] = HealthStatusHealthy]
    /\ probePc' = [probePc EXCEPT ![p] = "cache"]
    /\ UNCHANGED <<svars, provider, getenv, startTime, response, hw, callLog>>

HealthHandler(p) == Begin(p, "health")

ReadinessHandler(p) == Begin(p, "ready")

\* LivenessHandler up to writeHealthResponse
LivenessHandler(p) ==
    /\ probePc[p] = "new"
    /\ \E d \in Elapsed : now' = now + d
    /\ endpoint' = [endpoint EXCEPT ![p] = "live"]
    /\ response' = [response EXCEPT ![p] = LivenessResponse(now', now' - startTime)]
    /\ probePc' = [probePc EXCEPT ![p] = "write"]
    /\ UNCHANGED <<svars, provider, getenv, startTime, deadline, checks, details,
                   overallStatus, hw, callLog>>

\* performHealthChecks: the cache check
CheckCacheSystem(p) ==
    /\ probePc[p] = "cache"
    /\ LET cacheStatus == checkCacheSystem(provider) IN
          /\ checks' = [checks EXCEPT ![p] = Set(@, "cache", cacheStatus)]
          /\ overallStatus' = [overallStatus EXCEPT ![p] = Aggregate(@, cacheStatus)]
          /\ details' = [details EXCEPT ![p] =
                            Detail(@, "cache", cacheStatus, "Cache system not ready")]
          /\ callLog' = Append(callLog,
                [p |-> p, check |-> "cache", status |-> cacheStatus,
                 authTest |-> FALSE, outcome |-> ""])
          /\ probePc' = [probePc EXCEPT ![p] = AfterCache(endpoint[p], cacheStatus)]
    /\ UNCHANGED <<svars, now, provider, getenv, startTime, endpoint, deadline,
                   response, hw>>

\* Faulty variant of CheckSlackAPI: a check that failed is attempted once
\* more.
CheckSlackAPIRetry(p) ==
    /\ probePc[p] = "slack"
    /\ \E outcome \in AuthTestOutcomes :
          LET called == callsAuthTest(provider, getenv)
              slackStatus == checkSlackAPI(provider, getenv, outcome)
              again == /\ slackStatus = CheckStatusError
                       /\ \A i \in 1..Len(callLog) :
                             ~(callLog[i].p = p /\ callLog[i].check = "slack_api")
          IN  /\ ~called => outcome = "ok"
              /\ (called /\ outcome = "ok") => now < deadline[p]
              /\ now' = IF called /\ outcome = "timeout"
                        THEN Max(now, deadline[p]) ELSE now
              /\ checks' = [checks EXCEPT ![p] = Set(@, "slack_api", slackStatus)]
              /\ overallStatus' = [overallStatus EXCEPT ![p] = Aggregate(@, slackStatus)]
              /\ details' = [details EXCEPT ![p] =
                    Detail(@, "slack_api", slackStatus, "Slack API connectivity failed")]
              /\ callLog' = Append(callLog,
                    [p |-> p, check |-> "slack_api", status |-> slackStatus,
                     authTest |-> called, outcome |-> IF called THEN outcome ELSE ""])
              /\ probePc' = [probePc EXCEPT ![p] = IF again THEN "slack" ELSE "return"]
    /\ UNCHANGED <<svars, provider, getenv, startTime, endpoint, deadline,
                   response, hw>>

\* performHealthChecks: the Slack API check.  AuthTestContext, if the check
\* gets that far, answers or fails at once or returns when ctx is done; it
\* does not answer if ctx is done already.
CheckSlackAPI(p) ==
    /\ probePc[p] = "slack"
    /\ \E outcome \in AuthTestOutcomes :
          LET called == callsAuthTest(provider, getenv)
              slackStatus == checkSlackAPI(provider, getenv, outcome)
          IN  /\ ~called => outcome = "ok"
              /\ (called /\ outcome = "ok") => now < deadline[p]
              /\ now' = IF called /\ outcome = "timeout"
                        THEN Max(now, deadline[p]) ELSE now
              /\ checks' = [checks EXCEPT ![p] = Set(@, "slack_api", slackStatus)]
              /\ overallStatus' = [overallStatus EXCEPT ![p] = Aggregate(@, slackStatus)]
              /\ details' = [details EXCEPT ![p] =
                    Detail(@, "slack_api", slackStatus, "Slack API connectivity failed")]
              /\ callLog' = Append(callLog,
                    [p |-> p, check |-> "slack_api", status |-> slackStatus,
                     authTest |-> called, outcome |-> IF called THEN outcome ELSE ""])
    /\ probePc' = [probePc EXCEPT ![p] = "return"]
    /\ UNCHANGED <<svars, provider, getenv, startTime, endpoint, deadline,
                   response, hw>>

\* performHealthChecks: the uptime and the response it returns
Return(p) ==
    /\ probePc[p] = "return"
    /\ response' = [response EXCEPT ![p] =
          HealthResponse(overallStatus[p], now, checks[p], now - startTime, details[p])]
    /\ probePc' = [probePc EXCEPT ![p] = "write"]
    /\ UNCHANGED <<svars, now, provider, getenv, startTime, endpoint, deadline,
                   checks, details, overallStatus, hw, callLog>>

\* writeHealthResponse
WriteHealthResponse(p) ==
    /\ probePc[p] = "write"
    /\ \E encodeErr \in BOOLEAN :
          hw' = [hw EXCEPT ![p] = writeHealthResponse(@, response[p], encodeErr)]
    /\ probePc' = [probePc EXCEPT ![p] = "done"]
    /\ UNCHANGED <<svars, now, provider, getenv, startTime, endpoint, deadline,
                   checks, details, overallStatus, response, callLog>>

\* A server with any provider and any token variables, idle but for its
\* probe endpoints.
InitHealth ==
    /\ Construct("New", EnvNum(60), <<>>, TRUE)
    /\ \E p \in Providers, e \in Environments : NewHealthChecker(p, e)

\* Probes arrive at any time and are served concurrently.
NextHealth ==
    \E p \in Probes :
        \/ HealthHandler(p)
        \/ ReadinessHandler(p)
        \/ LivenessHandler(p)
        \/ CheckCacheSystem(p)
        \/ CheckSlackAPI(p)
        \/ Return(p)
        \/ WriteHealthResponse(p)

SpecHealth == InitHealth /\ [][NextHealth]_vars

\* The goroutine of probe p is held up between checkCacheSystem and
\* checkSlackAPI (it is not scheduled, or IsReady was slow) until the
\* deadline of its ctx has passed.
Stall(p) ==
    /\ probePc[p] = "slack"
    /\ now < deadline[p]
    /\ now' = deadline[p]
    /\ UNCHANGED <<svars, hvars>>

\* The statements of a probe that has begun.  Each of them returns: the
\* checks are calls without a loop, and AuthTestContext returns when its ctx
\* is done at the latest.
Proceed(p) ==
    \/ CheckCacheSystem(p)
    \/ CheckSlackAPI(p)
    \/ Return(p)
    \/ WriteHealthResponse(p)

NextHealthFair ==
    \E p \in Probes :
        \/ HealthHandler(p)
        \/ ReadinessHandler(p)
        \/ LivenessHandler(p)
        \/ Proceed(p)
        \/ Stall(p)

\* The probes with time passing inside them; the runtime schedules the
\* goroutine of every handler that can take a step.
SpecHealthFair ==
    /\ InitHealth
    /\ [][NextHealthFair]_vars
    /\ \A p \in Probes : WF_vars(Proceed(p))

----------------------------------------------------------------------------
(* Vocabulary of the properties *)

Done(r) == pc[r] = "done"

\* The call of limiter.Allow() that request r made, if any.
Refused(r) == \E i \in 1..Len(allowLog) : allowLog[i].r = r /\ ~allowLog[i].ok
Allowed(r) == \E i \in 1..Len(allowLog) : allowLog[i].r = r /\ allowLog[i].ok

\* Request r is past checkRateLimit and it returned true.
Passed(r) == pc[r] # "new" /\ (Disabled(config) \/ Allowed(r))

\* The downstream handler ran for request r.
Invoked(r) == \E i \in 1..Len(stages[r]) : stages[r][i] = "next"

\* The middleware was built by NewSecurityMiddleware with SLACK_MCP_RATE_LIMIT
\* set to a number.
FromRPM == env.ctor = "New" /\ env.rateLimit.set /\ env.rateLimit.num
RPM == env.rateLimit.val

\* The calls of Allow() of one client identity, in order.
CallsOf(id) == SelectSeq(allowLog, LAMBDA e : e.ip = id)

Identities == {allowLog[i].ip : i \in 1..Len(allowLog)}

\* An identity's decisions when it is alone: its calls replayed, at their
\* times, on a limiter of its own.
RECURSIVE Alone(_, _)
Alone(calls, lim) ==
    IF calls = <<>> THEN <<>>
    ELSE <<AllowOk(lim, config.RateLimit, Head(calls).t)>>
         \o Alone(Tail(calls), AllowNext(lim, config.RateLimit, Head(calls).t))

Decisions(calls) == [i \in 1..Len(calls) |-> calls[i].ok]

----------------------------------------------------------------------------
(* C1 *)

\* C1: with a positive requests-per-minute setting, the first call of every
\* identity is admitted; a call of an identity less than 60s/RPM after an
\* admitted call of that identity is refused; an admitted request is answered
\* with the downstream handler's status and a refused one with 429.
C1_BurstOfOne ==
    (FromRPM /\ RPM > 0) =>
        \A i \in 1..Len(allowLog) :
            LET e == allowLog[i] IN
            /\ (\A j \in 1..(i - 1) : allowLog[j].ip # e.ip) => e.ok
            /\ (\E j \in 1..(i - 1) : /\ allowLog[j].ip = e.ip
                                      /\ allowLog[j].ok
                                      /\ (e.t - allowLog[j].t) * RPM < Minute) => ~e.ok
            /\ Done(e.r) => resp[e.r].status =
                               IF e.ok THEN StatusOK ELSE StatusTooManyRequests

\* An identity admitted, then refused, and another identity admitted at the
\* same instant, all three answered.
C1_Witness ==
    /\ FromRPM /\ RPM > 0
    /\ Len(allowLog) = 3
    /\ allowLog[1].ok /\ ~allowLog[2].ok /\ allowLog[3].ok
    /\ allowLog[1].ip = allowLog[2].ip /\ allowLog[3].ip # allowLog[1].ip
    /\ allowLog[3].t = allowLog[2].t
    /\ \A r \in Reqs : Done(r)

----------------------------------------------------------------------------
(* C2 *)

\* C2: the decisions an identity gets are those it would get alone: whatever
\* the other identities send, each of its calls of Allow() is decided as in
\* the run that holds only its own requests, at the same times.
C2_Independent ==
    \A id \in Identities :
        LET calls == CallsOf(id) IN
        Decisions(calls) = Alone(calls, NewLimiter(config.RateLimit))

\* Two identities have each been decided, one of them twice with a refusal.
C2_Witness ==
    /\ Cardinality(Identities) = 2
    /\ \E id \in Identities : Len(CallsOf(id)) = 2 /\ ~CallsOf(id)[2].ok
    /\ \E i \in 1..Len(allowLog) : i > 1 /\ allowLog[i].ip # allowLog[1].ip /\ allowLog[i].ok

----------------------------------------------------------------------------
(* C3 *)

\* C3: with the interval 0 (limiting disabled) no limiter is ever created,
\* no request consults one, and every answered request was handed on, none
\* answered 429.
C3_DisabledAdmitsAll ==
    config.RateLimit = 0 =>
        /\ DOMAIN rateLimiters = {}
        /\ limiters = <<>>
        /\ allowLog = <<>>
        /\ \A r \in Reqs : pc[r] # "new" => Passed(r)
        /\ \A r \in Reqs : Done(r) => resp[r].status = StatusOK

\* Limiting disabled and every request, all of one identity, answered.
C3_Witness ==
    /\ config.RateLimit = 0
    /\ \A r \in Reqs : Done(r) /\ key(r) = key(1)

----------------------------------------------------------------------------
(* C4 *)

\* C4: a middleware built by NewSecurityMiddleware from a zero or negative
\* requests-per-minute value has limiting disabled: it refuses no request.
C4_NonPositiveDisables ==
    (FromRPM /\ RPM <= 0) =>
        \A r \in Reqs : ~Refused(r) /\ resp[r].status # StatusTooManyRequests

----------------------------------------------------------------------------
(* C5 *)

\* C5: at most one limiter is ever created for a key, and every request that
\* has returned from getRateLimiter holds the limiter its key is mapped to.
C5_OneBucketPerIdentity ==
    /\ \A i, j \in 1..Len(created) : created[i] = created[j] => i = j
    /\ Len(created) = Len(limiters)
    /\ \A r \in Reqs :
          pc[r] \in {"Unlock", "Allow"} \/ Allowed(r) \/ Refused(r) =>
              /\ key(r) \in DOMAIN rateLimiters
              /\ limiter[r] = rateLimiters[key(r)]
    /\ \A r, o \in Reqs :
          (pc[r] = "Allow" /\ pc[o] = "Allow" /\ key(r) = key(o)) => limiter[r] = limiter[o]

\* Two first-time callers of one key raced: one has created the limiter and
\* still holds the write lock, the other missed it in its read-locked lookup
\* and is about to take the write lock.
C5_Witness ==
    \E r, o \in Reqs :
        /\ r # o /\ key(r) = key(o)
        /\ pc[r] = "Unlock" /\ ~exists[r]
        /\ pc[o] = "Lock"

----------------------------------------------------------------------------
(* C6 *)

\* C6: of the calls of Allow() that one identity makes within less than one
\* refill interval of its first, exactly one is admitted.
C6_OneTokenPerInterval ==
    ~Disabled(config) =>
        \A id \in Identities :
            LET calls == CallsOf(id) IN
            calls[Len(calls)].t - calls[1].t < config.RateLimit =>
                Cardinality({i \in 1..Len(calls) : calls[i].ok}) = 1

\* All requests are of one identity that had no limiter, they were in
\* getRateLimiter together (each missed the limiter in its lookup or found it
\* only under the write lock), and all were decided within one interval; the
\* request that arrived first was not the one admitted.
C6_Witness ==
    /\ ~Disabled(config)
    /\ Len(allowLog) = NumReq
    /\ \A i \in 1..NumReq : allowLog[i].ip = allowLog[1].ip
    /\ allowLog[NumReq].t - allowLog[1].t < config.RateLimit
    /\ allowLog[1].r # 1
    /\ Refused(1)

----------------------------------------------------------------------------
(* C7 *)

\* C7: a request that is about to read the map in the lookup holds the read
\* lock and no writer holds the lock; a request that is about to read or
\* insert in the double check holds the write lock and no request holds the
\* read lock; and the map changes in no other step than that of the holder of
\* the write lock.
C7_MapUnderLock ==
    [][ /\ \A r \in Reqs : pc[r] = "lookup" => r \in mu.readers /\ mu.writer = None
        /\ \A r \in Reqs : pc[r] = "recheck" => mu.writer = r /\ mu.readers = {}
        /\ rateLimiters' # rateLimiters =>
              /\ mu.writer # None /\ mu.readers = {}
              /\ pc[mu.writer] = "recheck" /\ pc'[mu.writer] = "Unlock"
              /\ DOMAIN rateLimiters' = DOMAIN rateLimiters \cup {key(mu.writer)}
      ]_vars

\* A limiter has just been inserted under the write lock while another
\* request waits to take the read lock.
C7_Witness ==
    \E r, o \in Reqs :
        /\ pc[r] = "Unlock" /\ ~exists[r] /\ mu.writer = r
        /\ pc[o] = "RLock"

----------------------------------------------------------------------------
(* C8 *)

\* The stages of Handler for request r, in the order of the code.
Canon(r) ==
    <<"checkRateLimit", "applyCORS">>
    \o (IF config.EnableSecurityHeaders THEN <<"applySecurityHeaders">> ELSE <<>>)
    \o (IF req[r].method = "OPTIONS" THEN <<"preflight">> ELSE <<"next">>)

IsPrefix(a, b) == Len(a) <= Len(b) /\ SubSeq(b, 1, Len(a)) = a

CORSHeaders ==
    {"Access-Control-Allow-Methods", "Access-Control-Allow-Headers",
     "Access-Control-Allow-Credentials", "Access-Control-Max-Age"}

SecurityHeaderNames ==
    {"X-Content-Type-Options", "X-Frame-Options", "X-XSS-Protection",
     "Referrer-Policy", "Content-Security-Policy"}

\* C8: a request goes through rate-limit check, CORS headers, security
\* headers (if enabled), then the preflight answer or the downstream handler,
\* in this order and each once; a request whose rate-limit check fails is
\* answered at once with 429 and the JSON error body, and no later stage runs
\* for it.
C8_StageOrder ==
    \A r \in Reqs : pc[r] # "new" =>
        /\ IsPrefix(stages[r], Canon(r))
        /\ Refused(r) =>
              /\ Done(r)
              /\ stages[r] = <<"checkRateLimit">>
              /\ resp[r].status = StatusTooManyRequests
              /\ Contains(resp[r].body, "RATE_LIMIT_EXCEEDED")
              /\ DOMAIN resp[r].headers = {"Content-Type"}
              /\ resp[r].headers["Content-Type"] = "application/json"
        /\ (Done(r) /\ ~Refused(r)) => stages[r] = Canon(r)

\* One request went through every stage to the downstream handler and the
\* next one was refused.
C8_Witness ==
    \E r, o \in Reqs :
        /\ Done(r) /\ Refused(r)
        /\ Done(o) /\ stages[o] = <<"checkRateLimit", "applyCORS",
                                    "applySecurityHeaders", "next">>

----------------------------------------------------------------------------
(* C9 *)

\* C9: the downstream handler is never invoked for an OPTIONS request; an
\* OPTIONS request that passed the rate-limit check is answered 200 with the
\* CORS headers set and, if enabled, the security headers set.
C9_PreflightShortCircuit ==
    \A r \in Reqs : req[r].method = "OPTIONS" =>
        /\ ~Invoked(r)
        /\ resp[r].body # <<"OK">>
        /\ (Done(r) /\ Passed(r)) =>
              /\ resp[r].status = StatusOK
              /\ CORSHeaders \subseteq DOMAIN resp[r].headers
              /\ config.EnableSecurityHeaders =>
                    SecurityHeaderNames \subseteq DOMAIN resp[r].headers

\* An OPTIONS request with an Origin that the allow-list does not hold has
\* been answered, and so has an OPTIONS request without Origin.
C9_Witness ==
    \E r, o \in Reqs :
        /\ Done(r) /\ Passed(r) /\ req[r].method = "OPTIONS"
        /\ req[r].origin = "https://c.com" /\ Len(config.CORSOrigins) = 2
        /\ Done(o) /\ req[o].method = "OPTIONS" /\ req[o].origin = ""

----------------------------------------------------------------------------
(* C10 *)

\* C10 as stated: every answered OPTIONS request has status 200, whatever
\* the rate-limit outcome.
C10_PreflightAlways200 ==
    \A r \in Reqs : (Done(r) /\ req[r].method = "OPTIONS") => resp[r].status = StatusOK

\* C10 amended: an OPTIONS request is answered 200 if it passed the
\* rate-limit check, whatever the CORS outcome, and 429 if the check refused
\* it.
C10_PreflightStatus ==
    \A r \in Reqs : (Done(r) /\ req[r].method = "OPTIONS") =>
        resp[r].status = IF Refused(r) THEN StatusTooManyRequests ELSE StatusOK

\* An OPTIONS request of a client whose bucket was empty has been answered
\* 429, after an OPTIONS request with an unlisted Origin was answered 200.
C10_Witness ==
    \E r, o \in Reqs :
        /\ Done(r) /\ req[r].method = "OPTIONS" /\ Refused(r)
        /\ resp[r].status = StatusTooManyRequests
        /\ Done(o) /\ req[o].method = "OPTIONS" /\ resp[o].status = StatusOK
        /\ req[o].origin = "https://c.com" /\ Len(config.CORSOrigins) = 2

----------------------------------------------------------------------------
(* C11 *)

\* How often the downstream handler ran for request r.
Invocations(r) == Cardinality({i \in 1..Len(stages[r]) : stages[r][i] = "next"})

\* The allow-list is not empty and no entry of it is the wildcard or the
\* Origin of request r.
Unlisted(r) ==
    /\ Len(config.CORSOrigins) > 0
    /\ \A i \in 1..Len(config.CORSOrigins) :
          config.CORSOrigins[i] # "*" /\ config.CORSOrigins[i] # req[r].origin

\* C11: the downstream handler runs at most once for a request, and only for
\* one that passed the rate-limit check and is not OPTIONS; an answered
\* request had it run exactly once if and only if it passed the check and is
\* not OPTIONS; a request with an Origin that matches no allow-list entry is
\* not rejected: it is handed on, answered with the handler's 200 and carries
\* no Access-Control-Allow-Origin header.
C11_DownstreamOnce ==
    \A r \in Reqs :
        /\ Invocations(r) <= 1
        /\ Invoked(r) => (Passed(r) /\ req[r].method # "OPTIONS")
        /\ Done(r) => (Invocations(r) = 1 <=> (Passed(r) /\ req[r].method # "OPTIONS"))
        /\ (Done(r) /\ Passed(r) /\ req[r].method # "OPTIONS" /\ Unlisted(r)) =>
              /\ Invoked(r)
              /\ resp[r].status = StatusOK
              /\ resp[r].body = <<"OK">>
              /\ "Access-Control-Allow-Origin" \notin DOMAIN resp[r].headers

\* A GET request with an Origin that is not on the allow-list has been
\* answered by the downstream handler, a later request of the client was
\* refused, and an OPTIONS request that passed was answered.
C11_Witness ==
    \E r, o, p \in Reqs :
        /\ Done(r) /\ req[r].method = "GET" /\ req[r].origin = "https://c.com"
        /\ Unlisted(r) /\ Invocations(r) = 1 /\ resp[r].status = StatusOK
        /\ Done(o) /\ Refused(o) /\ ~Invoked(o)
        /\ Done(p) /\ Passed(p) /\ req[p].method = "OPTIONS" /\ ~Invoked(p)

----------------------------------------------------------------------------
(* C12 *)

\* applyCORS has run for request r.
CORSApplied(r) == \E i \in 1..Len(stages[r]) : stages[r][i] = "applyCORS"

\* Some entry of the allow-list is the wildcard or the Origin of request r.
Matches(r) ==
    \E i \in 1..Len(config.CORSOrigins) :
        config.CORSOrigins[i] = "*" \/ config.CORSOrigins[i] = req[r].origin

HasAllowOrigin(r) == "Access-Control-Allow-Origin" \in DOMAIN resp[r].headers
AllowOrigin(r) == resp[r].headers["Access-Control-Allow-Origin"]

\* C12: with an empty allow-list, every request applyCORS has run for carries
\* Access-Control-Allow-Origin "*", whatever its Origin, an absent one
\* included.
C12_EmptyListAllowsAll ==
    Len(config.CORSOrigins) = 0 =>
        \A r \in Reqs : CORSApplied(r) => (HasAllowOrigin(r) /\ AllowOrigin(r) = "*")

\* With an empty allow-list, a request without Origin and a request with an
\* Origin have both been answered with Allow-Origin "*".
C12_Witness ==
    /\ Len(config.CORSOrigins) = 0
    /\ \E r, o \in Reqs :
          /\ Done(r) /\ CORSApplied(r) /\ req[r].origin = "" /\ AllowOrigin(r) = "*"
          /\ Done(o) /\ CORSApplied(o) /\ req[o].origin = "https://c.com"
          /\ AllowOrigin(o) = "*"

----------------------------------------------------------------------------
(* C13 *)

\* C13: with a non-empty allow-list, a request applyCORS has run for carries
\* Access-Control-Allow-Origin if and only if some entry is the wildcard or
\* is equal, character for character, to its Origin; the value is then its
\* Origin, and a request that matches no entry carries no such header.
C13_ListedOriginEchoed ==
    Len(config.CORSOrigins) > 0 =>
        \A r \in Reqs : CORSApplied(r) =>
            /\ HasAllowOrigin(r) <=> Matches(r)
            /\ HasAllowOrigin(r) => AllowOrigin(r) = req[r].origin

\* With the list of two origins, a request with the first of them got it
\* echoed, and a request with the same origin in capitals and one with an
\* unlisted origin got no Allow-Origin header.
C13_Witness ==
    /\ config.CORSOrigins = <<"https://a.com", "https://b.com">>
    /\ \E r, o, p \in Reqs :
          /\ Done(r) /\ req[r].origin = "https://a.com" /\ HasAllowOrigin(r)
          /\ AllowOrigin(r) = "https://a.com"
          /\ Done(o) /\ CORSApplied(o) /\ req[o].origin = "HTTPS://A.COM"
          /\ ~HasAllowOrigin(o)
          /\ Done(p) /\ CORSApplied(p) /\ req[p].origin = "https://c.com"
          /\ ~HasAllowOrigin(p)

----------------------------------------------------------------------------
(* C14 *)

\* C14 as stated: with the allow-list the single entry "*", the
\* Access-Control-Allow-Origin of every request applyCORS has run for is its
\* Origin and is never the literal wildcard.
C14_WildcardNeverLiteral ==
    config.CORSOrigins = <<"*">> =>
        \A r \in Reqs : CORSApplied(r) =>
            /\ HasAllowOrigin(r)
            /\ AllowOrigin(r) = req[r].origin
            /\ AllowOrigin(r) # "*"

\* C14 amended: with the allow-list the single entry "*", the
\* Access-Control-Allow-Origin of every request applyCORS has run for is its
\* Origin (empty if it has none); it is the literal wildcard only for a
\* request whose Origin is the wildcard.
C14_WildcardEchoes ==
    config.CORSOrigins = <<"*">> =>
        \A r \in Reqs : CORSApplied(r) =>
            /\ HasAllowOrigin(r)
            /\ AllowOrigin(r) = req[r].origin
            /\ AllowOrigin(r) = "*" <=> req[r].origin = "*"

\* With the allow-list "*", a request with an Origin got it echoed, a
\* request with the Origin "*" got "*", and a request without Origin got the
\* empty value.
C14_Witness ==
    /\ config.CORSOrigins = <<"*">>
    /\ \E r, o, p \in Reqs :
          /\ Done(r) /\ CORSApplied(r) /\ req[r].origin = "https://c.com"
          /\ AllowOrigin(r) = "https://c.com"
          /\ Done(o) /\ CORSApplied(o) /\ req[o].origin = "*" /\ AllowOrigin(o) = "*"
          /\ Done(p) /\ CORSApplied(p) /\ req[p].origin = "" /\ AllowOrigin(p) = ""

----------------------------------------------------------------------------
(* C15 *)

\* C15: every request applyCORS has run for carries Allow-Methods,
\* Allow-Headers, Allow-Credentials "true" and Max-Age "86400" with their
\* fixed values, under every allow-list and for every Origin, matched or not.
C15_FixedCORSHeaders ==
    \A r \in Reqs : CORSApplied(r) =>
        /\ CORSHeaders \subseteq DOMAIN resp[r].headers
        /\ resp[r].headers["Access-Control-Allow-Methods"] =
              "GET, POST, PUT, DELETE, OPTIONS"
        /\ resp[r].headers["Access-Control-Allow-Headers"] =
              "Content-Type, Authorization, X-Requested-With"
        /\ resp[r].headers["Access-Control-Allow-Credentials"] = "true"
        /\ resp[r].headers["Access-Control-Max-Age"] = "86400"

\* Under a non-empty allow-list, a request with an Origin that matches no
\* entry was answered with the fixed headers and without Allow-Origin, and a
\* request with a listed Origin was answered with them and Allow-Origin.
C15_Witness ==
    \E r, o \in Reqs :
        /\ Done(r) /\ CORSApplied(r) /\ ~Matches(r) /\ Len(config.CORSOrigins) > 0
        /\ req[r].origin = "https://c.com"
        /\ ~HasAllowOrigin(r)
        /\ CORSHeaders \subseteq DOMAIN resp[r].headers
        /\ Done(o) /\ CORSApplied(o) /\ req[o].origin = "https://a.com"
        /\ HasAllowOrigin(o)
        /\ CORSHeaders \subseteq DOMAIN resp[o].headers

----------------------------------------------------------------------------
(* C16 *)

\* Request r is past the security-header stage of Handler.
PastSecurityHeaders(r) == Passed(r) /\ pc[r] \in {"preflight", "done"}

\* C16: of every request that passed the rate-limit check and is past the
\* security-header stage, the response carries all five security headers
\* with their fixed values if the flag is on, and none of the five if the
\* flag is off.
C16_SecurityHeadersAllOrNone ==
    \A r \in Reqs : PastSecurityHeaders(r) =>
        IF config.EnableSecurityHeaders
        THEN /\ SecurityHeaderNames \subseteq DOMAIN resp[r].headers
             /\ resp[r].headers["X-Content-Type-Options"] = "nosniff"
             /\ resp[r].headers["X-Frame-Options"] = "DENY"
             /\ resp[r].headers["X-XSS-Protection"] = "1; mode=block"
             /\ resp[r].headers["Referrer-Policy"] = "strict-origin-when-cross-origin"
             /\ resp[r].headers["Content-Security-Policy"] =
                   "default-src 'self'; script-src 'self'; style-src 'self' 'unsafe-inline'"
        ELSE SecurityHeaderNames \cap DOMAIN resp[r].headers = {}

\* With the flag off, a GET and an OPTIONS request that passed the check have
\* been answered, with the CORS headers and none of the five.
C16_Witness ==
    /\ ~config.EnableSecurityHeaders
    /\ \E r, o \in Reqs :
          /\ Done(r) /\ Passed(r) /\ req[r].method = "GET"
          /\ Done(o) /\ Passed(o) /\ req[o].method = "OPTIONS"
          /\ CORSHeaders \subseteq DOMAIN resp[r].headers
          /\ SecurityHeaderNames \cap DOMAIN resp[r].headers = {}

----------------------------------------------------------------------------
(* Vocabulary of the properties of the probes *)

\* Probe p has its document.
Produced(p) == probePc[p] \in {"write", "done"}

\* Probe p has been answered.
Answered(p) == probePc[p] = "done"

\* The executions of a check on behalf of probe p, as places in callLog.
CallsBy(p, check) ==
    {i \in 1..Len(callLog) : callLog[i].p = p /\ callLog[i].check = check}

AllOk(chks) == \A n \in DOMAIN chks : chks[n] = CheckStatusOK

----------------------------------------------------------------------------
(* C17 *)

\* C17: the status of every document a probe endpoint produces (liveness,
\* health, readiness) is healthy if and only if every entry of its checks
\* is ok, and unhealthy otherwise.
C17_HealthyIffAllOk ==
    \A p \in Probes : Produced(p) =>
        /\ response[p].Status \in {HealthStatusHealthy, HealthStatusUnhealthy}
        /\ response[p].Status = HealthStatusHealthy <=> AllOk(response[p].Checks)

\* One readiness document says cache ok, slack_api error and unhealthy, and
\* another, of the same server, says both ok and healthy.
C17_Witness ==
    \E p, q \in Probes :
        /\ Produced(p) /\ endpoint[p] = "ready"
        /\ response[p].Checks["cache"] = CheckStatusOK
        /\ response[p].Checks["slack_api"] = CheckStatusError
        /\ response[p].Status = HealthStatusUnhealthy
        /\ Produced(q) /\ endpoint[q] = "ready"
        /\ AllOk(response[q].Checks) /\ response[q].Status = HealthStatusHealthy

----------------------------------------------------------------------------
(* C18 *)

----------------------------------------------------------------------------
(* C19 *)

\* The upstream dependency did not answer the call made for probe p.
Unreachable(p) ==
    \E i \in CallsBy(p, "slack_api") : callLog[i].authTest /\ callLog[i].outcome # "ok"

\* C19: a health document holds exactly the check "cache" and the Slack API
\* check is never executed for a health probe; a readiness document holds
\* exactly "cache" and "slack_api", whatever their outcomes; a readiness
\* probe whose upstream call failed or timed out is answered 503 and its
\* document holds an entry "error".
C19_CheckNamesByEndpoint ==
    \A p \in Probes :
        /\ endpoint[p] = "health" =>
              /\ CallsBy(p, "slack_api") = {}
              /\ Produced(p) => DOMAIN response[p].Checks = {"cache"}
        /\ (endpoint[p] = "ready" /\ Produced(p)) =>
              /\ DOMAIN response[p].Checks = {"cache", "slack_api"}
              /\ Unreachable(p) =>
                    /\ \E n \in DOMAIN response[p].Checks :
                          response[p].Checks[n] = CheckStatusError
                    /\ Answered(p) => hw[p].status = StatusServiceUnavailable

\* A health probe has been answered 503 on its cache check alone, and a
\* readiness probe whose upstream call timed out has been answered 503.
C19_Witness ==
    \E p, q \in Probes :
        /\ Answered(p) /\ endpoint[p] = "health"
        /\ response[p].Checks["cache"] = CheckStatusError
        /\ hw[p].status = StatusServiceUnavailable
        /\ Answered(q) /\ endpoint[q] = "ready" /\ Unreachable(q)
        /\ \E i \in CallsBy(q, "slack_api") : callLog[i].outcome = "timeout"
        /\ hw[q].status = StatusServiceUnavailable

----------------------------------------------------------------------------
(* C20 *)

\* C20: for a readiness probe that is through its checks, each check was
\* executed once, a failed cache check notwithstanding; the upstream call was
\* made whenever the provider has a client and the tokens are not demo
\* tokens; and each entry of checks is the status of its own check.
C20_ExhaustiveAggregation ==
    \A p \in Probes :
        (endpoint[p] = "ready" /\ probePc[p] \in {"return", "write", "done"}) =>
            /\ Cardinality(CallsBy(p, "cache")) = 1
            /\ Cardinality(CallsBy(p, "slack_api")) = 1
            /\ DOMAIN checks[p] = {"cache", "slack_api"}
            /\ \A i \in CallsBy(p, "cache") :
                  /\ checks[p]["cache"] = callLog[i].status
                  /\ callLog[i].status = checkCacheSystem(provider)
            /\ \A i \in CallsBy(p, "slack_api") :
                  /\ checks[p]["slack_api"] = callLog[i].status
                  /\ callLog[i].authTest = (~provider.nil /\ provider.slack /\ ~demoMode(getenv))
                  /\ callLog[i].authTest =>
                        (callLog[i].status = CheckStatusOK <=> callLog[i].outcome = "ok")
            /\ Produced(p) => response[p].Checks = checks[p]

\* A readiness probe whose cache check failed went on to call upstream, got
\* an answer, and reports cache error and slack_api ok.
C20_Witness ==
    \E p \in Probes :
        /\ Answered(p) /\ endpoint[p] = "ready"
        /\ response[p].Checks["cache"] = CheckStatusError
        /\ response[p].Checks["slack_api"] = CheckStatusOK
        /\ \E i \in CallsBy(p, "slack_api") : callLog[i].authTest /\ callLog[i].outcome = "ok"
        /\ response[p].Status = HealthStatusUnhealthy

----------------------------------------------------------------------------
(* C21 *)

\* The checks executed on behalf of probe p all failed.
AllFailed(p) ==
    \A i \in 1..Len(callLog) : callLog[i].p = p => callLog[i].status = CheckStatusError

\* C21: every check returns ok or error; with a nil provider every check
\* executed returns error and no call is made upstream; with a provider
\* without client the Slack API check returns error and makes no call
\* upstream, demo tokens or not; and the probe goes on to its document, which
\* reports those errors.
C21_NilIsError ==
    /\ \A i \in 1..Len(callLog) :
          /\ callLog[i].status \in {CheckStatusOK, CheckStatusError}
          /\ provider.nil =>
                (callLog[i].status = CheckStatusError /\ ~callLog[i].authTest)
          /\ (callLog[i].check = "slack_api" /\ ~provider.nil /\ ~provider.slack) =>
                (callLog[i].status = CheckStatusError /\ ~callLog[i].authTest)
    /\ \A p \in Probes : (Produced(p) /\ endpoint[p] # "live") =>
          /\ provider.nil =>
                /\ AllFailed(p)
                /\ \A n \in DOMAIN response[p].Checks :
                      response[p].Checks[n] = CheckStatusError
                /\ response[p].Status = HealthStatusUnhealthy
          /\ (~provider.slack /\ endpoint[p] = "ready") =>
                /\ response[p].Checks["slack_api"] = CheckStatusError
                /\ response[p].Status = HealthStatusUnhealthy

\* With a ready provider that has no client and demo tokens set, a readiness
\* probe has been answered with cache ok and slack_api error.
C21_Witness ==
    /\ ~provider.nil /\ provider.ready /\ ~provider.err /\ ~provider.slack
    /\ demoMode(getenv)
    /\ \E p \in Probes :
          /\ Answered(p) /\ endpoint[p] = "ready"
          /\ response[p].Checks["cache"] = CheckStatusOK
          /\ response[p].Checks["slack_api"] = CheckStatusError
          /\ hw[p].status = StatusServiceUnavailable

----------------------------------------------------------------------------
(* C22 *)

\* The document was written to the response of probe p.
Encoded(p) == \E i \in 1..Len(hw[p].body) : "json" \in DOMAIN hw[p].body[i]

\* Encode failed for probe p: http.Error wrote its text.
EncodeFailed(p) ==
    \E i \in 1..Len(hw[p].body) : hw[p].body[i] = [text |-> "Internal server error"]

\* C22: an answered probe of any of the three endpoints has status 200 if
\* its document is healthy and 503 if it is unhealthy, with Content-Type
\* application/json; the body is the document whenever it could be encoded.
C22_StatusOneToOne ==
    \A p \in Probes : Answered(p) =>
        /\ response[p].Status \in {HealthStatusHealthy, HealthStatusUnhealthy}
        /\ response[p].Status = HealthStatusHealthy => hw[p].status = StatusOK
        /\ response[p].Status = HealthStatusUnhealthy =>
              hw[p].status = StatusServiceUnavailable
        /\ "Content-Type" \in DOMAIN hw[p].headers
        /\ hw[p].headers["Content-Type"] = "application/json"
        /\ Encoded(p) => hw[p].body = <<[json |-> Marshal(response[p])]>>

\* A readiness probe has been answered 503 with its unhealthy document and a
\* liveness probe 200 with its healthy one.
C22_Witness ==
    \E p, q \in Probes :
        /\ Answered(p) /\ Encoded(p) /\ endpoint[p] = "ready"
        /\ response[p].Status = HealthStatusUnhealthy
        /\ hw[p].status = StatusServiceUnavailable
        /\ Answered(q) /\ Encoded(q) /\ endpoint[q] = "live"
        /\ response[q].Status = HealthStatusHealthy /\ hw[q].status = StatusOK

----------------------------------------------------------------------------
(* C23 *)

\* C23: a probe whose document could not be encoded is answered with status
\* 500 and a plain-text body, not with 200 or 503 and not with a JSON
\* content type.
C23_EncodeFailure500 ==
    \A p \in Probes : (Answered(p) /\ EncodeFailed(p)) =>
        /\ hw[p].status = StatusInternalServerError
        /\ hw[p].headers["Content-Type"] # "application/json"

----------------------------------------------------------------------------
(* C24 *)

\* The ctx of probe p is done.
Expired(p) == now >= deadline[p]

\* Probe p takes its Slack API step.
SlackStep(p) == probePc[p] = "slack" /\ probePc'[p] = "return"

\* The result of the cache check of probe p, as the check returned it.
CacheResult(p) == {callLog[i].status : i \in CallsBy(p, "cache")}

\* The Slack API check of probe p called AuthTestContext and ctx cut it short.
TimedOut(p) ==
    \E i \in CallsBy(p, "slack_api") : callLog[i].authTest /\ callLog[i].outcome = "timeout"

\* The document of a readiness probe whose Slack API check failed is complete.
CompleteUnhealthy(p) ==
    /\ response[p] # NilResponse
    /\ DOMAIN response[p].Checks = {"cache", "slack_api"}
    /\ response[p].Checks["slack_api"] = CheckStatusError
    /\ response[p].Status = HealthStatusUnhealthy
    /\ CacheResult(p) = {response[p].Checks["cache"]}

----------------------------------------------------------------------------
(* C25 *)

\* The token variables say demo mode, and the provider and its client exist.
DemoWithClient ==
    /\ getenv.XOXP = "demo" \/ (getenv.XOXC = "demo" /\ getenv.XOXD = "demo")
    /\ ~provider.nil /\ provider.slack

\* C25: in demo mode with a provider and a client every Slack API check is
\* reported ok without a call of AuthTest, and the document of a readiness
\* probe says slack_api ok.
C25_DemoSkipsProbe ==
    DemoWithClient =>
        /\ \A i \in 1..Len(callLog) :
              /\ ~callLog[i].authTest
              /\ callLog[i].check = "slack_api" => callLog[i].status = CheckStatusOK
        /\ \A p \in Probes : (Produced(p) /\ endpoint[p] = "ready") =>
              response[p].Checks["slack_api"] = CheckStatusOK

\* With only the XOXC and XOXD tokens "demo" a readiness probe of a ready
\* provider has been answered 200 with slack_api ok, and two probes have run
\* the Slack API check.
C25_Witness ==
    /\ DemoWithClient /\ getenv.XOXP # "demo"
    /\ \A p \in Probes : CallsBy(p, "slack_api") # {}
    /\ \E p \in Probes :
          /\ Answered(p) /\ endpoint[p] = "ready"
          /\ response[p].Checks["slack_api"] = CheckStatusOK
          /\ hw[p].status = StatusOK

----------------------------------------------------------------------------
(* C26 *)

\* The calls of AuthTestContext on behalf of probe p.
AuthTestsBy(p) == {i \in CallsBy(p, "slack_api") : callLog[i].authTest}

\* C26: a probe executes the cache check and the Slack API check at most
\* once each (the latter not at all on the health and liveness endpoints)
\* and calls AuthTest at most once; the document reports each check as its
\* one execution returned it, a failure as error.
C26_NoRetry ==
    \A p \in Probes :
        /\ Cardinality(CallsBy(p, "cache")) <= 1
        /\ Cardinality(CallsBy(p, "slack_api")) <= 1
        /\ Cardinality(AuthTestsBy(p)) <= 1
        /\ endpoint[p] # "ready" => CallsBy(p, "slack_api") = {}
        /\ (Produced(p) /\ endpoint[p] # "live") =>
              \A i \in 1..Len(callLog) : callLog[i].p = p =>
                  response[p].Checks[callLog[i].check] = callLog[i].status

\* A readiness probe whose one call of AuthTest failed has been answered
\* with slack_api error, and nothing else was executed for it but the cache
\* check.
C26_Witness ==
    \E p \in Probes :
        /\ Answered(p) /\ endpoint[p] = "ready"
        /\ \E i \in AuthTestsBy(p) : callLog[i].outcome = "err"
        /\ Cardinality(CallsBy(p, "slack_api")) = 1
        /\ Cardinality(CallsBy(p, "cache")) = 1
        /\ response[p].Checks["slack_api"] = CheckStatusError

----------------------------------------------------------------------------
(* C27 *)

\* k is the text before the first comma of xff, without the blanks around it.
FirstEntryTrimmed(k, xff) ==
    \E i \in 0..Len(xff) :
        /\ i = Len(xff) \/ xff[i + 1] = ","
        /\ \A j \in 1..i : xff[j] # ","
        /\ \E a \in 0..i :
              /\ a + Len(k) <= i
              /\ \A j \in 1..a : xff[j] = " "
              /\ \A j \in 1..Len(k) : k[j] = xff[a + j]
              /\ \A j \in (a + Len(k) + 1)..i : xff[j] = " "
        /\ k # <<>> => (k[1] # " " /\ k[Len(k)] # " ")

\* k is addr without its port: addr itself if it has no colon, else what
\* precedes the last colon, without the brackets of an IPv6 address.
WithoutPort(k, addr) ==
    \/ k = addr /\ \A j \in 1..Len(addr) : addr[j] # ":"
    \/ \E n \in 1..Len(addr) :
          /\ addr[n] = ":"
          /\ \A j \in (n + 1)..Len(addr) : addr[j] # ":"
          /\ \/ /\ Len(k) = n - 1
                /\ \A j \in 1..Len(k) : k[j] = addr[j] /\ k[j] \notin {":", "[", "]"}
             \/ /\ n >= 3 /\ addr[1] = "[" /\ addr[n - 1] = "]"
                /\ Len(k) = n - 3
                /\ \A j \in 1..Len(k) : k[j] = addr[j + 1]

\* k is the identity of the client of request q.
IdentityOf(k, q) ==
    IF q.xff # <<>> THEN FirstEntryTrimmed(k, q.xff)
    ELSE IF q.xri # <<>> THEN k = q.xri
    ELSE WithoutPort(k, q.remoteAddr)

\* Request r has its limiter.
HasLimiter(r) == limiter[r] # None

\* The keys under which the limiter of request r is stored.
KeysOf(r) == {k \in DOMAIN rateLimiters : rateLimiters[k] = limiter[r]}

\* Requests r and o name their client by RemoteAddr alone, with the same
\* address and different ports.
SameAddress(r, o) ==
    /\ req[r].xff = <<>> /\ req[r].xri = <<>>
    /\ req[o].xff = <<>> /\ req[o].xri = <<>>
    /\ req[r].remoteAddr # req[o].remoteAddr
    /\ \E a, b \in 0..Len(req[r].remoteAddr) :
          LET k == SubSeq(req[r].remoteAddr, a + 1, b) IN
              WithoutPort(k, req[r].remoteAddr) /\ WithoutPort(k, req[o].remoteAddr)

\* C27: the limiter of a request is stored under one key, the identity of
\* its client: the first entry of X-Forwarded-For without the blanks around
\* it if the header is not empty, else X-Real-IP if that is not empty, else
\* RemoteAddr without its port and brackets; two requests from the same
\* address and different ports have the same limiter.
C27_ClientIdentity ==
    \A r \in Reqs : HasLimiter(r) =>
        /\ KeysOf(r) # {}
        /\ \A k \in KeysOf(r) : IdentityOf(k, req[r])
        /\ \A o \in Reqs : (HasLimiter(o) /\ SameAddress(r, o)) => limiter[r] = limiter[o]
        /\ KeysOf(r) \subseteq
              {<<"10.0.0.1">>, <<"10.0.0.9">>, <<"192.168.1.1">>, <<":", ":", "1">>}

\* A request from 192.168.1.1:12345 was admitted, one from 192.168.1.1:54321
\* was refused on the same limiter, and one with " 10.0.0.1 , 10.0.0.2" in
\* X-Forwarded-For was admitted on the limiter of 10.0.0.1.
C27_Witness ==
    \E r, o, x \in Reqs :
        /\ Done(r) /\ Done(o) /\ Done(x)
        /\ SameAddress(r, o) /\ Allowed(r) /\ Refused(o)
        /\ limiter[r] = limiter[o]
        /\ Len(req[x].xff) > 1 /\ Allowed(x)
        /\ KeysOf(x) = {<<"10.0.0.1">>}
        /\ DOMAIN rateLimiters = {<<"192.168.1.1">>, <<"10.0.0.1">>}

----------------------------------------------------------------------------
(* C28 *)

\* Value v is an object with a string member of that name.
HasString(v, name) ==
    /\ "obj" \in DOMAIN v
    /\ <<name>> \in DOMAIN v.obj
    /\ "str" \in DOMAIN v.obj[<<name>>]

\* The body of response w is the error document for the URL path.
ErrorDocument(w, path) ==
    LET d == Decode(w.body) IN
    /\ d.ok
    /\ "obj" \in DOMAIN d.val
    /\ <<"error">> \in DOMAIN d.val.obj
    /\ HasString(d.val.obj[<<"error">>], "code")
    /\ d.val.obj[<<"error">>].obj[<<"code">>].str = <<"RATE_LIMIT_EXCEEDED">>
    /\ HasString(d.val.obj[<<"error">>], "message")
    /\ d.val.obj[<<"error">>].obj[<<"message">>].str # <<>>
    /\ HasString(d.val.obj[<<"error">>], "details")
    /\ d.val.obj[<<"error">>].obj[<<"details">>].str # <<>>
    /\ HasString(d.val, "timestamp")
    /\ HasString(d.val, "path")
    /\ d.val.obj[<<"path">>].str = path

\* C28: every response with status 429 has Content-Type application/json
\* and a body that is a JSON document with error.code RATE_LIMIT_EXCEEDED, a
\* message, details, and the URL path of its request as path.
C28_ErrorBodySchema ==
    \A r \in Reqs : resp[r].status = StatusTooManyRequests =>
        /\ "Content-Type" \in DOMAIN resp[r].headers
        /\ resp[r].headers["Content-Type"] = "application/json"
        /\ ErrorDocument(resp[r], req[r].path)

\* The same for the requests whose URL path holds no quote.
PlainPathSchema ==
    \A r \in Reqs :
        (resp[r].status = StatusTooManyRequests /\ ~Contains(req[r].path, Quote)) =>
            ErrorDocument(resp[r], req[r].path)

----------------------------------------------------------------------------
(* C29 *)

\* The middleware was built by NewSecurityMiddleware with SLACK_MCP_RATE_LIMIT
\* not set.
FromDefault == env.ctor = "New" /\ ~env.rateLimit.set

\* Call i of Allow() comes at least d after every admitted earlier call of
\* its identity.
Spaced(i, d) ==
    \A j \in 1..(i - 1) :
        (allowLog[j].ip = allowLog[i].ip /\ allowLog[j].ok) =>
            allowLog[i].t - allowLog[j].t >= d

\* C29: with SLACK_MCP_RATE_LIMIT not set the limit is 60 requests a minute
\* for each client: a call of an identity that comes a second or more after
\* the identity's admitted calls is admitted.
C29_DefaultSixtyPerMinute ==
    FromDefault => \A i \in 1..Len(allowLog) : Spaced(i, Second) => allowLog[i].ok

\* The same for SLACK_MCP_RATE_LIMIT=60.
SixtyPerMinute ==
    (FromRPM /\ RPM = 60) =>
        \A i \in 1..Len(allowLog) : Spaced(i, Second) => allowLog[i].ok

----------------------------------------------------------------------------
(* C30 *)

\* The details of the body of response w name n requests per minute.
DetailsName(w, n) ==
    \E i \in 1..(Len(w.body) - 2) :
        /\ w.body[i] = "Rate limit of "
        /\ w.body[i + 1] = ToString(n)
        /\ w.body[i + 2] = " requests per minute exceeded"

\* C30: the details of a 429 of a middleware built with SLACK_MCP_RATE_LIMIT
\* set to R name R requests per minute.
C30_DetailsStateLimit ==
    FromRPM => \A r \in Reqs :
        resp[r].status = StatusTooManyRequests => DetailsName(resp[r], RPM)

----------------------------------------------------------------------------
(* C31 *)

\* Document d has the status, version, checks and uptime of document r.
SameDocument(d, r) ==
    /\ d.Status = r.Status
    /\ d.Version = r.Version
    /\ DOMAIN d.Checks = DOMAIN r.Checks
    /\ \A n \in DOMAIN r.Checks : d.Checks[n] = r.Checks[n]
    /\ d.Uptime = r.Uptime

\* The JSON text written for probe p
Wire(p) == hw[p].body[1].json

\* C31: the JSON text of every document a probe has produced, and the text
\* on the wire of every probe answered with its document, is parsed back
\* without an error to the same status, version, checks (names and values)
\* and uptime.
C31_RoundTrip ==
    \A p \in Probes :
        /\ Produced(p) =>
              /\ ~Unmarshal(Marshal(response[p])).err
              /\ SameDocument(Unmarshal(Marshal(response[p])).value, response[p])
        /\ (Answered(p) /\ Encoded(p)) =>
              /\ ~Unmarshal(Wire(p)).err
              /\ SameDocument(Unmarshal(Wire(p)).value, response[p])

\* A readiness probe whose upstream call ran into the deadline has been
\* answered with its document: two checks, one of them failed, details, and
\* an uptime of fifteen seconds or more; and the text on the wire is parsed
\* back to them.
C31_Witness ==
    \E p \in Probes :
        /\ Answered(p) /\ Encoded(p) /\ endpoint[p] = "ready"
        /\ response[p].Checks = Set(Set(NoChecks, "cache", CheckStatusOK),
                                    "slack_api", CheckStatusError)
        /\ DOMAIN response[p].Details = {"slack_api"}
        /\ response[p].Uptime >= 15 * Second
        /\ Unmarshal(Wire(p)).value.Uptime = response[p].Uptime
        /\ Unmarshal(Wire(p)).value.Checks = response[p].Checks
        /\ Unmarshal(Wire(p)).value.Details = response[p].Details

----------------------------------------------------------------------------
(* C32 *)

\* The identities of the requests that have arrived, and of those that have
\* returned from getRateLimiter.
Arrived == {getClientIP(req[r]) : r \in {o \in Reqs : pc[o] # "new"}}
Served == {getClientIP(req[r]) : r \in {o \in Reqs : Allowed(o) \/ Refused(o) \/ pc[o] = "Allow"}}

\* No request is under way.
Quiet == \A r \in Reqs : pc[r] \in {"new", "done"}

\* C32: no step removes an identity from the registry, maps one to another
\* bucket or destroys a bucket; the registry holds identities of requests
\* that arrived while limiting was enabled, all of them once their requests
\* are answered, and none while limiting is disabled.
C32_RegistryOnlyGrows ==
    /\ [][ /\ DOMAIN rateLimiters \subseteq DOMAIN rateLimiters'
           /\ \A k \in DOMAIN rateLimiters : rateLimiters'[k] = rateLimiters[k]
           /\ Len(limiters') >= Len(limiters) ]_vars
    /\ [](/\ Disabled(config) => DOMAIN rateLimiters = {}
          /\ DOMAIN rateLimiters \subseteq Arrived
          /\ ~Disabled(config) => Served \subseteq DOMAIN rateLimiters
          /\ (Quiet /\ ~Disabled(config)) => DOMAIN rateLimiters = Arrived
          /\ \A k \in DOMAIN rateLimiters :
                /\ rateLimiters[k] \in 1..Len(limiters)
                /\ created[rateLimiters[k]] = k)

\* Two identities are in the registry, all requests are answered, and the
\* two requests of one identity used the bucket created for the first.
C32_Witness ==
    /\ Quiet /\ Cardinality(DOMAIN rateLimiters) = 2
    /\ \E r, o \in Reqs :
          /\ r < o /\ Done(r) /\ Done(o)
          /\ getClientIP(req[r]) = getClientIP(req[o])
          /\ ~exists[r] /\ exists[o]
          /\ limiter[r] = limiter[o]
          /\ rateLimiters[getClientIP(req[r])] = limiter[r]

----------------------------------------------------------------------------
(* C33 *)

\* C33: with limiting enabled every bucket has a capacity of one token and
\* never holds more than one (a token being one refill interval of accrued
\* time), and any two admitted calls of one identity are at least one refill
\* interval apart.
C33_NeverMoreThanOneToken ==
    ~Disabled(config) =>
        /\ \A b \in 1..Len(limiters) :
              /\ limiters[b].burst = 1
              /\ limiters[b].tokens <= config.RateLimit
              /\ limiters[b].tokens >= 0
        /\ \A i, j \in 1..Len(allowLog) :
              (i < j /\ allowLog[i].ip = allowLog[j].ip /\ allowLog[i].ok /\ allowLog[j].ok) =>
                  allowLog[j].t - allowLog[i].t >= config.RateLimit

\* The first two calls of an identity come at the same instant, almost two
\* refill intervals after the zero time of its bucket: one is admitted, the
\* other refused.
C33_Witness ==
    /\ ~Disabled(config)
    /\ \E i, j \in 1..Len(allowLog) :
          /\ i < j /\ allowLog[i].ip = allowLog[j].ip
          /\ \A k \in 1..(i - 1) : allowLog[k].ip # allowLog[i].ip
          /\ allowLog[i].t = allowLog[j].t
          /\ 2 * allowLog[i].t > 3 * config.RateLimit
          /\ allowLog[i].ok /\ ~allowLog[j].ok

----------------------------------------------------------------------------
(* C34 *)

\* Request r is refused in this step.
RefusedNow(r) == pc[r] = "Allow" /\ pc'[r] = "done" /\ ~allowLog'[Len(allowLog')].ok

\* C34: the step that refuses a request leaves every bucket as it was, and
\* a call of an identity that comes one refill interval or more after the
\* identity's last admitted call is admitted, whatever calls of the identity
\* were refused in between.
C34_ThrottledRecovers ==
    /\ [][\A r \in Reqs : RefusedNow(r) => limiters' = limiters]_vars
    /\ [](~Disabled(config) =>
            \A j \in 1..Len(allowLog) : Spaced(j, config.RateLimit) => allowLog[j].ok)

\* An identity was admitted, refused within the interval, and admitted again
\* exactly one interval after its first call.
C34_Witness ==
    /\ ~Disabled(config)
    /\ \E i, j, k \in 1..Len(allowLog) :
          /\ i < j /\ j < k
          /\ allowLog[i].ip = allowLog[j].ip /\ allowLog[j].ip = allowLog[k].ip
          /\ allowLog[i].ok /\ ~allowLog[j].ok /\ allowLog[k].ok
          /\ allowLog[j].t > allowLog[i].t
          /\ allowLog[k].t = allowLog[i].t + config.RateLimit

----------------------------------------------------------------------------
(* C35 *)

\* Request r is a preflight that was answered 200.
PreflightAnswered(r) ==
    Done(r) /\ req[r].method = "OPTIONS" /\ resp[r].status = StatusOK

\* C35: with limiting enabled, while less than one refill interval has
\* passed since the start, a client whose preflight was answered 200 has
\* every other request of that identity answered 429 without the downstream
\* handler, the actual request that follows the preflight included.
C35_PreflightCharged ==
    (~Disabled(config) /\ now < config.RateLimit) =>
        \A r, o \in Reqs :
            (/\ r # o /\ PreflightAnswered(r) /\ Done(o)
             /\ getClientIP(req[o]) = getClientIP(req[r])) =>
                /\ resp[o].status = StatusTooManyRequests
                /\ ~Invoked(o)
                /\ Refused(o)

\* A preflight was answered 200 and the GET request that followed it a
\* millisecond later 429.
C35_Witness ==
    /\ ~Disabled(config) /\ now = Millisecond /\ now < config.RateLimit
    /\ \E r, o \in Reqs :
          /\ r < o /\ PreflightAnswered(r) /\ Done(o)
          /\ req[o].method = "GET"
          /\ \E i \in 1..Len(allowLog) : allowLog[i].r = o /\ allowLog[i].t = now
          /\ resp[o].status = StatusTooManyRequests /\ ~Invoked(o)

----------------------------------------------------------------------------
(* C36 *)

----------------------------------------------------------------------------
(* C37 *)

\* Request r is inside getRateLimiter.
InGetRateLimiter(r) ==
    pc[r] \in {"RLock", "lookup", "RUnlock", "Lock", "LockWait", "recheck", "Unlock"}

\* Request r holds or has asked for the mutex.
HoldsLock(r) == r \in mu.readers \/ mu.writer = r \/ mu.pending = r

\* C37: a request that asks for the write lock does not hold the read lock,
\* a request outside getRateLimiter holds no lock, and with a fair scheduler
\* every request that has entered getRateLimiter leaves it with a bucket.
C37_NoDeadlock ==
    /\ [](\A r \in Reqs :
            /\ pc[r] \in {"Lock", "LockWait", "recheck", "Unlock"} => r \notin mu.readers
            /\ ~InGetRateLimiter(r) => ~HoldsLock(r))
    /\ \A r \in Reqs :
          InGetRateLimiter(r) ~>
              (~InGetRateLimiter(r) /\ limiter[r] # None /\ limiter[r] \in 1..Len(limiters))

\* All requests are inside getRateLimiter at once, two of one identity and
\* one of another: one holds the write lock and the others wait, one for the
\* read lock and one for the write lock.
C37_Witness ==
    \E r, o, x \in Reqs :
        /\ pc[r] = "recheck" /\ mu.writer = r
        /\ pc[o] = "RLock" /\ pc[x] = "Lock"
        /\ getClientIP(req[r]) = getClientIP(req[x])
        /\ getClientIP(req[r]) # getClientIP(req[o])

----------------------------------------------------------------------------
(* C38 *)

\* The first entries of X-Forwarded-For of request q, without the blanks
\* around them (one, if the header is not empty).
FirstEntries(q) ==
    {k \in {SubSeq(q.xff, a + 1, b) : a, b \in 0..Len(q.xff)} : FirstEntryTrimmed(k, q.xff)}

\* Requests r and o come from one transport address with X-Forwarded-For
\* headers whose first entries differ.
Spoofed(r, o) ==
    /\ req[r].remoteAddr = req[o].remoteAddr
    /\ req[r].xff # <<>> /\ req[o].xff # <<>>
    /\ FirstEntries(req[r]) \cap FirstEntries(req[o]) = {}

\* C38: two requests from one transport address whose X-Forwarded-For first
\* entries differ have different buckets, the entry being the key whether it
\* is an address or not; and a sender whose requests all differ in that
\* entry has none of them refused.
C38_HeaderChoosesBucket ==
    /\ \A r, o \in Reqs :
          (HasLimiter(r) /\ HasLimiter(o) /\ Spoofed(r, o)) => limiter[r] # limiter[o]
    /\ \A r \in Reqs : (HasLimiter(r) /\ req[r].xff # <<>>) =>
          KeysOf(r) \subseteq FirstEntries(req[r])
    /\ (\A r, o \in Reqs : (r # o /\ pc[r] # "new" /\ pc[o] # "new") => Spoofed(r, o)) =>
          \A r \in Reqs : ~Refused(r) /\ resp[r].status # StatusTooManyRequests

\* Three requests from one transport address at the same instant, each with
\* another X-Forwarded-For, one of them no address: all admitted, three
\* buckets.
C38_Witness ==
    /\ now = 0 /\ \A r \in Reqs : Done(r) /\ Allowed(r) /\ resp[r].status = StatusOK
    /\ \A r, o \in Reqs : r # o => Spoofed(r, o)
    /\ Cardinality(DOMAIN rateLimiters) = NumReq
    /\ <<"not-an-ip">> \in DOMAIN rateLimiters

----------------------------------------------------------------------------
(* C39 *)

\* The names performHealthChecks gives its checks
CheckNames == {"cache", "slack_api"}

\* The JSON text written for probe p has a member "details".
WireHasDetails(p) == <<"details">> \in DOMAIN Decode(Wire(p)).val.obj

\* C39: in every document performHealthChecks has produced (for the health
\* and the readiness endpoint) the details name exactly the checks whose
\* status is error, and a document whose checks are all ok has no details,
\* in the document and in the JSON text written.
C39_DetailsIffError ==
    \A p \in Probes : (Produced(p) /\ endpoint[p] \in {"health", "ready"}) =>
        /\ DOMAIN response[p].Checks \subseteq CheckNames
        /\ DOMAIN response[p].Details =
              {n \in DOMAIN response[p].Checks : response[p].Checks[n] = CheckStatusError}
        /\ AllOk(response[p].Checks) => DOMAIN response[p].Details = {}
        /\ (Answered(p) /\ Encoded(p)) =>
              (WireHasDetails(p) <=> ~AllOk(response[p].Checks))

\* Two probes have been answered with their documents: a readiness probe
\* whose cache check passed and whose upstream check failed, with details
\* for slack_api alone, and one whose checks are all ok, without details.
C39_Witness ==
    \E p, o \in Probes :
        /\ Answered(p) /\ Encoded(p) /\ endpoint[p] = "ready"
        /\ response[p].Checks["cache"] = CheckStatusOK
        /\ response[p].Checks["slack_api"] = CheckStatusError
        /\ DOMAIN response[p].Details = {"slack_api"} /\ WireHasDetails(p)
        /\ Answered(o) /\ Encoded(o) /\ endpoint[o] \in {"health", "ready"}
        /\ AllOk(response[o].Checks)
        /\ DOMAIN response[o].Details = {} /\ ~WireHasDetails(o)

----------------------------------------------------------------------------
(* C40 *)

\* What loadServerConfig makes of the SLACK_MCP_RATE_LIMIT the middleware
\* was built with
Reported == loadServerConfig(env.rateLimit)

\* C40: whatever SLACK_MCP_RATE_LIMIT is, every request a middleware built
\* by NewSecurityMiddleware has answered was served under the interval
\* loadServerConfig computes from the same value: loadServerConfig does not
\* reject the value, the intervals are equal, and no request is refused
\* when loadServerConfig reports limiting as disabled.
C40_ReadersAgree ==
    \A r \in Reqs : (env.ctor = "New" /\ Done(r)) =>
        /\ ~Reported.err
        /\ Reported.RateLimit = config.RateLimit
        /\ resp[r].status = StatusTooManyRequests => Reported.RateLimit # 0

\* The two readers agree where the variable is unset or a positive number.
AgreeWherePositive ==
    (env.ctor = "New" /\ (~env.rateLimit.set \/ (env.rateLimit.num /\ env.rateLimit.val > 0))) =>
        /\ ~Reported.err
        /\ Reported.RateLimit = config.RateLimit

====
